---- MODULE Spec2Model ----
(***************************************************************************)
(* A model of powerbackup's backup lifecycle and restore engine:           *)
(*   - the single-table restore and its line-based table extractor         *)
(*     (backup/table-restore.js),                                          *)
(*   - BackupManager.performBackup, the artifact pipeline                  *)
(*     (backup/manager.js),                                                *)
(*   - the verify-mode restore (backup/manager.js, backup/restore.js,      *)
(*     utils/file.js),                                                     *)
(*   - the retention pruning of PowerBackupScheduler (scheduler.js),       *)
(*   - the scheduler cycle of PowerBackupScheduler and of the command line *)
(*     (scheduler.js, cli.js).                                             *)
(* Each part has its own specification over its own variables; the other   *)
(* parts' variables stay at their idle values.  Calls to the logger have   *)
(* no effect on the modelled state and are left out.                       *)
(***************************************************************************)
EXTENDS Integers, Sequences, FiniteSets, TLC

VARIABLES
    \* single-table restore
    trPc, trEngine, trDump, trShape, trTable, trSQL, trTarget, trEffects,
    \* performBackup
    bkPc, bkCfg, bkCount, bkTmpNext, bkSql, bkDecomp, bkFinal, bkSum, bkEncrypted,
    bkError, scratch, store, metas, bkCfgOf, bkRaw,
    \* pruneBackups / pruneTier
    prPc, prRetention, prDisk, prMeta, prDisk0, prTierIdx, prMaxKeep, prRemove,
    prIdx, prLog, prFaulty,
    \* verify-mode restore
    rsPc, rsEngine, rsCfg, rsRaw, rsFile, rsContent, rsDbs, rsCreateTried, rsCreated,
    rsError, rsFallback,
    \* scheduler cycles
    scKind, scTest, scKeep, scFiles, scTimer, scStarted, scCycle, scExit,
    \* create-now
    cnPc, cnKeep, cnName, cnCalls, cnTier, cnProduced, cnExit,
    \* statement-by-statement fallback
    fbPc, fbEngine, fbText, fbCuts, fbStatements, fbSent, fbConn, fbLostAt,
    \* producing a dump
    dmPc, dmEngine, dmUrl, dmBinary, dmExit, dmTables, dmSpawned, dmCliErr,
    dmFallbackRan, dmFile, dmError,
    \* start() and stop() of the scheduler object
    ssIsRunning, ssStarting, ssTimers, ssCalls, ssFired, ssFiredStopped

trVars == <<trPc, trEngine, trDump, trShape, trTable, trSQL, trTarget, trEffects>>

bkVars == <<bkPc, bkCfg, bkCount, bkTmpNext, bkSql, bkDecomp, bkFinal, bkSum,
            bkEncrypted, bkError, scratch, store, metas, bkCfgOf, bkRaw>>

prVars == <<prPc, prRetention, prDisk, prMeta, prDisk0, prTierIdx, prMaxKeep,
            prRemove, prIdx, prLog, prFaulty>>

rsVars == <<rsPc, rsEngine, rsCfg, rsRaw, rsFile, rsContent, rsDbs, rsCreateTried,
            rsCreated, rsError, rsFallback>>

scVars == <<scKind, scTest, scKeep, scFiles, scTimer, scStarted, scCycle, scExit>>

cnVars == <<cnPc, cnKeep, cnName, cnCalls, cnTier, cnProduced, cnExit>>

fbVars == <<fbPc, fbEngine, fbText, fbCuts, fbStatements, fbSent, fbConn, fbLostAt>>

dmVars == <<dmPc, dmEngine, dmUrl, dmBinary, dmExit, dmTables, dmSpawned, dmCliErr,
           dmFallbackRan, dmFile, dmError>>

ssVars == <<ssIsRunning, ssStarting, ssTimers, ssCalls, ssFired, ssFiredStopped>>

vars == <<trVars, bkVars, prVars, rsVars, scVars, cnVars, fbVars, dmVars, ssVars>>

(***************************************************************************)
(* Bounds.                                                                 *)
(***************************************************************************)
\* INSERT statements per table in a generated dump.
MaxInserts == 3

\* Calls of performBackup in one behaviour.
MaxBackups == 2

\* Artifact files in a tier directory before a pruning.
MaxFiles == 3

\* The largest keep-count of a retention policy.
MaxKeep == 2

\* Scheduler cycles in one behaviour.
MaxCycles == 3

\* Calls of create-now in one behaviour.
MaxCreateNow == 3

\* Tokens of a SQL text handed to the statement-by-statement fallback.
MaxTokens == 3

\* Tables of the database a dump is produced from.
MaxTables == 2

\* Calls of start() and stop() on one scheduler object.
MaxCalls == 5

\* Firings of the hourly timers in one behaviour.
MaxFired == 3

(***************************************************************************)
(* Dump text, as the table extractor sees it: a sequence of lines.  A line *)
(* is described by what the extractor tests on it:                         *)
(*   kind  "create": the line contains CREATE TABLE <quoted tbl>           *)
(*         "insert": the line contains INSERT INTO <quoted tbl>            *)
(*         "drop"  : a DROP TABLE IF EXISTS <quoted tbl>; line             *)
(*         "body"  : any other line of a statement                         *)
(*   tbl   the table of the statement the line belongs to                  *)
(*   open, close  the number of ( and of ) on the line                     *)
(*   semi  line.trim().endsWith(';')                                       *)
(***************************************************************************)
Tables == {"users", "posts"}

Engines == {"mysql", "postgres"}

Line(kind, tbl, open, close, semi) ==
    [kind |-> kind, tbl |-> tbl, open |-> open, close |-> close, semi |-> semi]

\* CREATE TABLE `t` (`id` int);
CreateSingle(t) == << Line("create", t, 1, 1, TRUE) >>

\* CREATE TABLE `t` (
\*   `id` int(11) NOT NULL,
\* ) ENGINE=InnoDB;
CreateMulti(t) ==
    << Line("create", t, 1, 0, FALSE),
       Line("body", t, 1, 1, FALSE),
       Line("body", t, 0, 1, TRUE) >>

\* INSERT INTO `t` VALUES (1,'a');
InsertSingle(t) == << Line("insert", t, 1, 1, TRUE) >>

\* INSERT INTO `t` (`id`,`name`) VALUES
\* (1,'a');
InsertMulti(t) ==
    << Line("insert", t, 1, 1, FALSE),
       Line("body", t, 1, 1, TRUE) >>

\* DROP TABLE IF EXISTS `t`;
DropLine(t) == << Line("drop", t, 0, 0, TRUE) >>

RECURSIVE Repeat(_, _)
Repeat(s, n) == IF n = 0 THEN << >> ELSE s \o Repeat(s, n - 1)

\* The shapes of dump the model generates: two tables, in either order, each
\* an optional DROP line, a CREATE TABLE (one line or several) and its
\* INSERT statements (each one line or two).
DumpShapes ==
    [ first : Tables, multiCreate : BOOLEAN, multiInsert : BOOLEAN,
      withDrop : BOOLEAN, nFirst : 0..MaxInserts, nSecond : 0..MaxInserts ]

Section(t, sh, n) ==
    (IF sh.withDrop THEN DropLine(t) ELSE << >>)
    \o (IF sh.multiCreate THEN CreateMulti(t) ELSE CreateSingle(t))
    \o Repeat(IF sh.multiInsert THEN InsertMulti(t) ELSE InsertSingle(t), n)

DumpOf(sh) ==
    LET second == CHOOSE t \in Tables : t # sh.first
    IN  Section(sh.first, sh, sh.nFirst) \o Section(second, sh, sh.nSecond)

(***************************************************************************)
(* extractTableSQL (MySQL) and extractPostgresTableSQL.                    *)
(***************************************************************************)
\* line.includes(`CREATE TABLE <quoted tableName>`)
IsCreateOf(line, t) == line.kind = "create" /\ line.tbl = t

\* line.includes('CREATE TABLE') && !line.includes(<quoted tableName>)
IsCreateOther(line, t) == line.kind = "create" /\ line.tbl # t

\* nextLine.includes(`INSERT INTO <quoted tableName>`)
IsInsertOf(line, t) == line.kind = "insert" /\ line.tbl = t

\* braceCount += count of '(' ; braceCount -= count of ')'
BraceAfter(brace, line) == brace + line.open - line.close

\* The extractor's result: null (isNull) or the joined lines.
NullSQL == [isNull |-> TRUE, lines |-> << >>]

TextSQL(lines) == [isNull |-> FALSE, lines |-> lines]

\* while (j < lines.length && !lines[j].trim().endsWith(';')) push, j++
RECURSIVE ContinuationScan(_, _, _)
ContinuationScan(lines, j, sql) ==
    IF j <= Len(lines) /\ ~lines[j].semi
    THEN ContinuationScan(lines, j + 1, Append(sql, lines[j]))
    ELSE [j |-> j, sql |-> sql]

\* The while (j < lines.length) loop that looks for the table's INSERTs.
RECURSIVE InsertScan(_, _, _, _)
InsertScan(lines, t, j, sql) ==
    IF j > Len(lines) THEN sql
    ELSE IF IsCreateOther(lines[j], t) THEN sql
    ELSE IF IsInsertOf(lines[j], t)
         THEN LET r == ContinuationScan(lines, j + 1, Append(sql, lines[j]))
              IN  IF r.j <= Len(lines)
                  THEN InsertScan(lines, t, r.j, Append(r.sql, lines[r.j]))
                  ELSE InsertScan(lines, t, r.j, r.sql)
         ELSE InsertScan(lines, t, j + 1, sql)

\* The for loop over the lines.  closedAt is the line at which the test
\* braceCount === 0 && line.trim().endsWith(';') first holds, 0 if at none.
RECURSIVE ExtractLoop(_, _, _, _, _, _, _)
ExtractLoop(lines, t, i, inTargetTable, sql, brace, foundTable) ==
    IF i > Len(lines) THEN [found |-> foundTable, sql |-> sql, closedAt |-> 0]
    ELSE IF IsCreateOf(lines[i], t)
         THEN ExtractLoop(lines, t, i + 1, TRUE, Append(sql, lines[i]), brace, TRUE)
    ELSE IF inTargetTable
         THEN LET sql2 == Append(sql, lines[i])
                  b2 == BraceAfter(brace, lines[i])
              IN  IF b2 = 0 /\ lines[i].semi
                  THEN [found |-> foundTable,
                        sql |-> InsertScan(lines, t, i + 1, sql2),
                        closedAt |-> i]
                  ELSE ExtractLoop(lines, t, i + 1, TRUE, sql2, b2, foundTable)
    ELSE ExtractLoop(lines, t, i + 1, inTargetTable, sql, brace, foundTable)

extractTableSQL(lines, t) ==
    LET r == ExtractLoop(lines, t, 1, FALSE, << >>, 0, FALSE)
    IN  IF ~r.found THEN NullSQL
        ELSE IF r.sql = << >> THEN NullSQL ELSE TextSQL(r.sql)

\* The for loop of extractPostgresTableSQL; closedAt as above (here the
\* test leads to continue, and the loop goes on).
RECURSIVE PgExtractLoop(_, _, _, _, _, _, _)
PgExtractLoop(lines, t, i, inTargetTable, sql, brace, closedAt) ==
    IF i > Len(lines) THEN [sql |-> sql, closedAt |-> closedAt]
    ELSE IF IsCreateOf(lines[i], t)
         THEN PgExtractLoop(lines, t, i + 1, TRUE, Append(sql, lines[i]), brace, closedAt)
    ELSE IF inTargetTable
         THEN LET sql2 == Append(sql, lines[i])
                  b2 == BraceAfter(brace, lines[i])
              IN  IF b2 = 0 /\ lines[i].semi
                  THEN PgExtractLoop(lines, t, i + 1, TRUE, sql2, b2,
                                     IF closedAt = 0 THEN i ELSE closedAt)
                  ELSE IF IsCreateOther(lines[i], t)
                  THEN [sql |-> sql2, closedAt |-> closedAt]
                  ELSE PgExtractLoop(lines, t, i + 1, TRUE, sql2, b2, closedAt)
    ELSE PgExtractLoop(lines, t, i + 1, inTargetTable, sql, brace, closedAt)

extractPostgresTableSQL(lines, t) ==
    TextSQL(PgExtractLoop(lines, t, 1, FALSE, << >>, 0, 0).sql)

\* A test that lets every extraction result through.
NeverFalsySQL(r) == FALSE

\* if (!tableSQL) throw new Error(`Table ... not found in backup`)
IsFalsySQL(r) == r.isNull \/ r.lines = << >>

(***************************************************************************)
(* Execution of a multi-statement text by connection.query / client.query. *)
(* The text is cut into statements at the lines that end with ';'.  A      *)
(* statement acts on the table of its first line.                          *)
(***************************************************************************)
RECURSIVE SplitStatements(_, _, _)
SplitStatements(lines, i, cur) ==
    IF i > Len(lines) THEN (IF cur = << >> THEN << >> ELSE << cur >>)
    ELSE IF lines[i].semi
         THEN << Append(cur, lines[i]) >> \o SplitStatements(lines, i + 1, << >>)
         ELSE SplitStatements(lines, i + 1, Append(cur, lines[i]))

\* The server accepts a statement when it is complete and applicable.
StatementOK(stmt, tables) ==
    /\ stmt[Len(stmt)].semi
    /\ CASE stmt[1].kind = "create" -> stmt[1].tbl \notin tables
         [] stmt[1].kind = "insert" -> stmt[1].tbl \in tables
         [] stmt[1].kind = "drop" -> TRUE
         [] OTHER -> FALSE

ApplyStatement(stmt, db) ==
    CASE stmt[1].kind = "create" ->
            [tables |-> db.tables \cup {stmt[1].tbl},
             effects |-> db.effects \cup {[op |-> "create", tbl |-> stmt[1].tbl]}]
      [] stmt[1].kind = "insert" ->
            [tables |-> db.tables,
             effects |-> db.effects \cup {[op |-> "insert", tbl |-> stmt[1].tbl]}]
      [] OTHER ->
            [tables |-> db.tables \ {stmt[1].tbl},
             effects |-> db.effects \cup {[op |-> "drop", tbl |-> stmt[1].tbl]}]

\* Statements run in order; the first one the server rejects ends the query.
RECURSIVE RunStatements(_, _, _)
RunStatements(stmts, k, db) ==
    IF k > Len(stmts) THEN [ok |-> TRUE, db |-> db]
    ELSE IF ~StatementOK(stmts[k], db.tables) THEN [ok |-> FALSE, db |-> db]
    ELSE RunStatements(stmts, k + 1, ApplyStatement(stmts[k], db))

\* mysql2 with multipleStatements: the statements before the failing one stay
\* applied.  pg simple query: the statements of one query string are one
\* implicit transaction, so a failure undoes them all.
QueryText(engine, lines, db) ==
    LET r == RunStatements(SplitStatements(lines, 1, << >>), 1, db)
    IN  IF engine = "postgres" /\ ~r.ok THEN [ok |-> FALSE, db |-> db] ELSE r

(***************************************************************************)
(* restoreTable: restoreTableMysql / restoreTablePostgres.                 *)
(***************************************************************************)
TrTargets == Tables \cup {"missing"}

\* The variables the single-table restore leaves alone.
TrOthers == <<bkVars, prVars, rsVars, scVars, cnVars, fbVars, dmVars, ssVars>>

TrIdle ==
    /\ trPc = "off"
    /\ trEngine = "mysql"
    /\ trShape = [first |-> "users", multiCreate |-> FALSE, multiInsert |-> FALSE,
                  withDrop |-> FALSE, nFirst |-> 0, nSecond |-> 0]
    /\ trDump = << >>
    /\ trTable = "users"
    /\ trSQL = NullSQL
    /\ trTarget = {}
    /\ trEffects = {}

TrInit ==
    /\ trPc = "start"
    /\ trEngine \in Engines
    /\ trShape \in DumpShapes
    /\ trDump = DumpOf(trShape)
    /\ trTable \in TrTargets
    /\ trSQL = NullSQL
    /\ trTarget \in SUBSET Tables
    /\ trEffects = {}

\* Read and decompress the backup, extract the table's SQL; a null or empty
\* result throws before any connection is made.
TrExtract ==
    /\ trPc = "start"
    /\ \E readOk \in BOOLEAN :
         IF ~readOk
         THEN /\ trPc' = "failed"
              /\ UNCHANGED trSQL
         ELSE LET r == IF trEngine = "mysql"
                       THEN extractTableSQL(trDump, trTable)
                       ELSE extractPostgresTableSQL(trDump, trTable)
              IN  /\ trSQL' = r
                  /\ trPc' = IF IsFalsySQL(r) THEN "notfound" ELSE "extracted"
    /\ UNCHANGED <<trEngine, trDump, trShape, trTable, trTarget, trEffects>>
    /\ UNCHANGED TrOthers

\* mysql.createConnection / client.connect
TrConnect ==
    /\ trPc = "extracted"
    /\ \E ok \in BOOLEAN : trPc' = IF ok THEN "connected" ELSE "failed"
    /\ UNCHANGED <<trEngine, trDump, trShape, trTable, trSQL, trTarget, trEffects>>
    /\ UNCHANGED TrOthers

\* DROP TABLE IF EXISTS <targetTable> [CASCADE]
TrDropTable ==
    /\ trPc = "connected"
    /\ trTarget' = trTarget \ {trTable}
    /\ trEffects' = trEffects \cup {[op |-> "drop", tbl |-> trTable]}
    /\ trPc' = "dropped"
    /\ UNCHANGED <<trEngine, trDump, trShape, trTable, trSQL>>
    /\ UNCHANGED TrOthers

\* connection.query(tableSQL), then the check that the table exists and the
\* row count; the connection is closed in the finally block.
TrExecute ==
    /\ trPc = "dropped"
    /\ LET r == QueryText(trEngine, trSQL.lines,
                          [tables |-> trTarget, effects |-> trEffects])
       IN  /\ trTarget' = r.db.tables
           /\ trEffects' = r.db.effects
           /\ trPc' = IF r.ok /\ trTable \in r.db.tables THEN "done" ELSE "failed"
    /\ UNCHANGED <<trEngine, trDump, trShape, trTable, trSQL>>
    /\ UNCHANGED TrOthers

TrNext == TrExtract \/ TrConnect \/ TrDropTable \/ TrExecute

(***************************************************************************)
(* File contents.  A content is the dump it was made from (id, and whether *)
(* the text holds an SQL marker token at all, and at its very start), the  *)
(* transformations applied to it, innermost first, and whether the write   *)
(* that produced the file ran to its end.                                  *)
(***************************************************************************)
RawDump(id, marker, atStart) ==
    [id |-> id, marker |-> marker, atStart |-> atStart, layers |-> << >>,
     whole |-> TRUE]

\* The file tmpFile() creates: empty.
EmptyFile == RawDump(0, FALSE, FALSE)

\* A file whose writer failed before the end.
Truncated(c) == [c EXCEPT !.whole = FALSE]

\* A text other than the dump it stands for: no marker token is in it.
Altered(c) == [c EXCEPT !.marker = FALSE, !.atStart = FALSE]

\* zlib gzip / gunzip
Gzip(c) == [c EXCEPT !.layers = Append(@, "gz")]

IsGzip(c) == c.whole /\ c.layers # << >> /\ c.layers[Len(c.layers)] = "gz"

Gunzip(c) == [c EXCEPT !.layers = SubSeq(@, 1, Len(@) - 1)]

\* openpgp.encrypt with passwords (symmetric) or with encryptionKeys
EncryptWith(c, how) == [c EXCEPT !.layers = Append(@, how)]

IsEncryptedWith(c, how) ==
    c.whole /\ c.layers # << >> /\ c.layers[Len(c.layers)] = how

DecryptLayer(c) == [c EXCEPT !.layers = SubSeq(@, 1, Len(@) - 1)]

\* crypto.createHash('sha256') over the file's bytes: distinct contents have
\* distinct digests.
Sha256(c) == [sha |-> c]

\* A check that lets every complete text pass.
AcceptsAnyText(c) == c.whole /\ c.layers = << >>

\* sqlContent.match(/(?:CREATE|INSERT|SET|COPY|--|PowerBackup)/)
HasMarkerAnywhere(c) == c.whole /\ c.layers = << >> /\ c.marker

\* preview.match(/^[-\s]*(?:PowerBackup|CREATE|INSERT|SET|COPY)/)
HasMarkerAtStart(c) == c.whole /\ c.layers = << >> /\ c.atStart

\* The dumps createDump can write: with a marker at the start, with a marker
\* only further down, with none.
DumpKinds == { <<TRUE, TRUE>>, <<TRUE, FALSE>>, <<FALSE, FALSE>> }

(***************************************************************************)
(* Files.  The scratch area (the temp directory) and the tier directory    *)
(* backup_dir/<db>/hourly hold files [name, data]; a name is the number of *)
(* the tmpFile() call that made its base and the suffix appended to it.    *)
(***************************************************************************)
FileName(tmp, ext) == [tmp |-> tmp, ext |-> ext]

File(name, data) == [name |-> name, data |-> data]

Exists(dir, name) == \E f \in dir : f.name = name

DataAt(dir, name) == (CHOOSE f \in dir : f.name = name).data

Unlink(dir, name) == { f \in dir : f.name # name }

\* Writing a path replaces what was there.
WriteFile(dir, name, data) == Unlink(dir, name) \cup { File(name, data) }

\* const recipients = dbConfig.recipients || config.gpg?.recipients || [];
\* a configuration is: is that list non-empty, is a passphrase file configured
BackupConfigs == [recipients : BOOLEAN, passfile : BOOLEAN]

\* The configuration as written: the target's own recipients entry (absent,
\* an empty list, a list of key ids), whether the global gpg.recipients list
\* is non-empty, and whether gpg.symmetric_passphrase_file is set.
RawConfigs ==
    [dbRecipients : {"absent", "empty", "some"}, globalRecipients : BOOLEAN,
     passfile : BOOLEAN]

\* dbConfig.recipients || this.config.gpg?.recipients || []  is non-empty:
\* an empty list of the target is truthy and is the result.
HasRecipients(raw) ==
    \/ raw.dbRecipients = "some"
    \/ raw.dbRecipients = "absent" /\ raw.globalRecipients

EffectiveConfig(raw) == [recipients |-> HasRecipients(raw), passfile |-> raw.passfile]

\* if (recipients.length || this.config.gpg?.symmetric_passphrase_file)
EncryptionConfigured(cfg) == cfg.recipients \/ cfg.passfile

\* encryptFile: public keys when there are recipients, else the passphrase
EncryptionKind(cfg) == IF cfg.recipients THEN "gpg-keys" ELSE "gpg-pass"

\* gzPath = sqlPath + '.gz'
GzPath(sqlPath) == FileName(sqlPath.tmp, ".gz")

\* finalPath = gzPath + '.gpg'
GpgPath(gzPath) == FileName(gzPath.tmp, ".gz.gpg")

\* A compression that writes straight into the tier directory.
CompressDirFinal == "store"

\* The directory compressFile writes the compressed file to.
CompressDir == "scratch"

\* A checksum taken of the compressed bytes, before the encryption.
calculateChecksumBeforeEncrypt(data) ==
    Sha256(IF IsGzip(data) THEN data ELSE DecryptLayer(data))

\* async calculateChecksum(filePath)
calculateChecksum(data) == Sha256(data)

NoName == FileName(0, "")

NoSum == Sha256(EmptyFile)

BkIdle ==
    /\ bkPc = "idle"
    /\ bkCfg = [recipients |-> FALSE, passfile |-> FALSE]
    /\ bkCount = 0
    /\ bkTmpNext = 1
    /\ bkSql = NoName
    /\ bkDecomp = NoName
    /\ bkFinal = NoName
    /\ bkSum = NoSum
    /\ bkEncrypted = FALSE
    /\ bkError = "none"
    /\ scratch = {}
    /\ store = {}
    /\ metas = {}
    /\ bkCfgOf = << >>
    /\ bkRaw = [dbRecipients |-> "absent", globalRecipients |-> FALSE, passfile |-> FALSE]

BkOthers == <<trVars, prVars, rsVars, scVars, cnVars, fbVars, dmVars, ssVars>>

\* performBackup(dbConfig): const { path: sqlPath, cleanup } = await tmpFile()
BkStart ==
    /\ bkPc = "idle"
    /\ bkCount < MaxBackups
    /\ \E raw \in RawConfigs :
         /\ bkRaw' = raw
         /\ bkCfg' = EffectiveConfig(raw)
         /\ bkCfgOf' = (bkCfgOf @@ (bkTmpNext :> EffectiveConfig(raw)))
    /\ bkCount' = bkCount + 1
    /\ bkSql' = FileName(bkTmpNext, "")
    /\ bkTmpNext' = bkTmpNext + 1
    /\ scratch' = WriteFile(scratch, FileName(bkTmpNext, ""), EmptyFile)
    /\ bkDecomp' = NoName
    /\ bkFinal' = NoName
    /\ bkSum' = NoSum
    /\ bkEncrypted' = FALSE
    /\ bkError' = "none"
    /\ bkPc' = "dump"
    /\ UNCHANGED <<store, metas>>
    /\ UNCHANGED BkOthers

\* await this.createDump(dbConfig, sqlPath): the dump is written to sqlPath,
\* or the dump fails and leaves what it had written.
BkCreateDump ==
    /\ bkPc = "dump"
    /\ \E k \in DumpKinds, ok \in BOOLEAN :
         LET raw == RawDump(bkSql.tmp, k[1], k[2])
         IN  IF ok
             THEN /\ scratch' = WriteFile(scratch, bkSql, raw)
                  /\ bkPc' = "validate"
                  /\ bkError' = bkError
             ELSE /\ scratch' \in { scratch, WriteFile(scratch, bkSql, Truncated(raw)) }
                  /\ bkPc' = "catch"
                  /\ bkError' = "dump"
    /\ UNCHANGED <<bkCfg, bkCount, bkTmpNext, bkSql, bkDecomp, bkFinal, bkSum,
                   bkEncrypted, store, metas, bkCfgOf, bkRaw>>
    /\ UNCHANGED BkOthers

\* fs.readFile(sqlPath) and the marker check
BkValidate ==
    /\ bkPc = "validate"
    /\ IF HasMarkerAnywhere(DataAt(scratch, bkSql))
       THEN bkPc' = "compress" /\ bkError' = bkError
       ELSE bkPc' = "catch" /\ bkError' = "validation"
    /\ UNCHANGED <<bkCfg, bkCount, bkTmpNext, bkSql, bkDecomp, bkFinal, bkSum,
                   bkEncrypted, scratch, store, metas, bkCfgOf, bkRaw>>
    /\ UNCHANGED BkOthers

\* gzPath = sqlPath + '.gz'; await compressFile(sqlPath, gzPath, 'gzip'):
\* a failing pipeline leaves the part of the output it had written.  The
\* stream reads sqlPath again, after the validation has read it: the text
\* that reaches gzip is the validated text, or ("altered") another one.
BkCompress ==
    /\ bkPc = "compress"
    /\ \E outcome \in {"ok", "failed", "altered"} :
         LET ok == outcome # "failed"
             src == DataAt(scratch, bkSql)
             gz == Gzip(IF outcome = "altered" THEN Altered(src) ELSE src)
             out == IF ok THEN gz ELSE Truncated(gz)
         IN  /\ IF CompressDir = "scratch"
                THEN /\ scratch' = WriteFile(scratch, GzPath(bkSql), out)
                     /\ store' = store
                ELSE /\ store' = WriteFile(store, GzPath(bkSql), out)
                     /\ scratch' = scratch
             /\ bkPc' = IF ok THEN "selfverify" ELSE "catch"
             /\ bkError' = IF ok THEN bkError ELSE "compression"
    /\ UNCHANGED <<bkCfg, bkCount, bkTmpNext, bkSql, bkDecomp, bkFinal, bkSum,
                   bkEncrypted, metas, bkCfgOf, bkRaw>>
    /\ UNCHANGED BkOthers

\* ({ path: decompPath } = await tmpFile()); gunzip gzPath into decompPath and
\* read it back; then unlink(decompPath) and unlink(sqlPath).  failAt is the
\* call that throws, if any.
BkSelfVerify ==
    /\ bkPc = "selfverify"
    /\ Exists(scratch, GzPath(bkSql))
    /\ \E failAt \in {"none", "gunzip", "unlinkDecomp", "unlinkSql"} :
         LET decomp == FileName(bkTmpNext, "")
             gz == DataAt(scratch, GzPath(bkSql))
             written == WriteFile(scratch, decomp,
                                  IF failAt = "gunzip" \/ ~IsGzip(gz)
                                  THEN Truncated(EmptyFile) ELSE Gunzip(gz))
         IN  /\ bkDecomp' = decomp
             /\ bkTmpNext' = bkTmpNext + 1
             /\ scratch' =
                  CASE failAt = "gunzip" \/ ~IsGzip(gz) -> written
                    [] failAt = "unlinkDecomp" -> written
                    [] failAt = "unlinkSql" -> Unlink(written, decomp)
                    [] OTHER -> Unlink(Unlink(written, decomp), bkSql)
             /\ IF failAt = "none" /\ IsGzip(gz)
                THEN bkPc' = "encrypt" /\ bkError' = bkError
                ELSE bkPc' = "catch" /\ bkError' = "selfverify"
    /\ UNCHANGED <<bkCfg, bkCount, bkSql, bkFinal, bkSum, bkEncrypted, store,
                   metas, bkCfgOf, bkRaw>>
    /\ UNCHANGED BkOthers

\* finalPath = gzPath; if encryption is configured: finalPath = gzPath + '.gpg',
\* encrypted = await encryptFile(gzPath, finalPath, ...), unlink(gzPath).
BkEncrypt ==
    /\ bkPc = "encrypt"
    /\ IF ~EncryptionConfigured(bkCfg)
       THEN /\ bkFinal' = GzPath(bkSql)
            /\ bkEncrypted' = FALSE
            /\ bkPc' = "checksum"
            /\ UNCHANGED <<scratch, bkError>>
       ELSE \E failAt \in {"none", "encrypt", "unlinkGz"} :
              LET gz == GzPath(bkSql)
                  out == EncryptWith(DataAt(scratch, gz), EncryptionKind(bkCfg))
              IN  /\ bkFinal' = GpgPath(gz)
                  /\ IF failAt = "encrypt"
                     THEN /\ scratch' \in { scratch,
                                            WriteFile(scratch, GpgPath(gz), Truncated(out)) }
                          /\ bkEncrypted' = FALSE
                          /\ bkPc' = "catch"
                          /\ bkError' = "encryption"
                     ELSE /\ bkEncrypted' = TRUE
                          /\ IF failAt = "unlinkGz"
                             THEN /\ scratch' = WriteFile(scratch, GpgPath(gz), out)
                                  /\ bkPc' = "catch"
                                  /\ bkError' = "encryption"
                             ELSE /\ scratch' = Unlink(WriteFile(scratch, GpgPath(gz), out), gz)
                                  /\ bkPc' = "checksum"
                                  /\ bkError' = bkError
    /\ UNCHANGED <<bkCfg, bkCount, bkTmpNext, bkSql, bkDecomp, bkSum, store, metas,
                   bkCfgOf, bkRaw>>
    /\ UNCHANGED BkOthers

\* const checksum = await this.calculateChecksum(finalPath)
BkChecksum ==
    /\ bkPc = "checksum"
    /\ \E ok \in BOOLEAN :
         IF ok
         THEN /\ bkSum' = calculateChecksum(DataAt(scratch, bkFinal))
              /\ bkPc' = "place"
              /\ bkError' = bkError
         ELSE /\ bkSum' = bkSum
              /\ bkPc' = "catch"
              /\ bkError' = "checksum"
    /\ UNCHANGED <<bkCfg, bkCount, bkTmpNext, bkSql, bkDecomp, bkFinal, bkEncrypted,
                   scratch, store, metas, bkCfgOf, bkRaw>>
    /\ UNCHANGED BkOthers

\* fs.mkdir(backupDir, { recursive: true });
\* destPath = path.join(backupDir, path.basename(finalPath));
\* await fs.rename(finalPath, destPath)
BkPlace ==
    /\ bkPc = "place"
    /\ \E ok \in BOOLEAN :
         IF ok /\ Exists(scratch, bkFinal)
         THEN /\ store' = WriteFile(store, bkFinal, DataAt(scratch, bkFinal))
              /\ scratch' = Unlink(scratch, bkFinal)
              /\ bkPc' = "meta"
              /\ bkError' = bkError
         ELSE /\ UNCHANGED <<store, scratch>>
              /\ bkPc' = "catch"
              /\ bkError' = "placement"
    /\ UNCHANGED <<bkCfg, bkCount, bkTmpNext, bkSql, bkDecomp, bkFinal, bkSum,
                   bkEncrypted, metas, bkCfgOf, bkRaw>>
    /\ UNCHANGED BkOthers

\* metaPath = destPath + '.meta.json'; fs.writeFile(metaPath, JSON.stringify(meta))
BkWriteMeta ==
    /\ bkPc = "meta"
    /\ \E ok \in BOOLEAN :
         IF ok
         THEN /\ metas' = { m \in metas : m.file # bkFinal }
                          \cup { [file |-> bkFinal, encrypted |-> bkEncrypted,
                                  recipients |-> bkCfg.recipients, sha256 |-> bkSum] }
              /\ bkPc' = "finally"
              /\ bkError' = bkError
         ELSE /\ metas' = metas
              /\ bkPc' = "catch"
              /\ bkError' = "metadata"
    /\ UNCHANGED <<bkCfg, bkCount, bkTmpNext, bkSql, bkDecomp, bkFinal, bkSum,
                   bkEncrypted, scratch, store, bkCfgOf, bkRaw>>
    /\ UNCHANGED BkOthers

\* The catch block logs and rethrows; finally { cleanup() } removes sqlPath,
\* the one temp file whose cleanup callback was kept.  After a success the
\* S3 upload runs first; its failure is only logged.  bkCfgOf keeps the
\* configuration of the calls that have a file in the tier directory.
BkFinally ==
    /\ bkPc \in {"catch", "finally"}
    /\ scratch' = Unlink(scratch, bkSql)
    /\ bkCfgOf' = [k \in { j \in DOMAIN bkCfgOf : \E f \in store : f.name.tmp = j }
                      |-> bkCfgOf[k]]
    /\ bkPc' = "idle"
    /\ UNCHANGED <<bkCfg, bkCount, bkTmpNext, bkSql, bkDecomp, bkFinal, bkSum,
                   bkEncrypted, bkError, store, metas, bkRaw>>
    /\ UNCHANGED BkOthers

BkNext ==
    \/ BkStart
    \/ BkCreateDump
    \/ BkValidate
    \/ BkCompress
    \/ BkSelfVerify
    \/ BkEncrypt
    \/ BkChecksum
    \/ BkPlace
    \/ BkWriteMeta
    \/ BkFinally

(***************************************************************************)
(* PowerBackupScheduler.pruneBackups and pruneTier.  A tier directory      *)
(* holds artifact files [id, mtime] and, for some of them, the sidecar     *)
(* <file>.meta.json (prMeta: the ids that have one).  A tier directory     *)
(* that does not exist is a tier without files.  prLog records, per tier,  *)
(* the unlink calls made on artifact files and whether each succeeded.     *)
(***************************************************************************)
\* const tiers = ['hourly', 'daily', 'weekly', 'monthly', 'yearly']
TierNames == << "hourly", "daily", "weekly", "monthly", "yearly" >>

Tiers == { TierNames[k] : k \in 1..Len(TierNames) }

\* An entry of the retention policy: absent, or a number.
KeepAbsent == [set |-> FALSE, n |-> 0]

KeepOf(n) == [set |-> TRUE, n |-> n]

KeepOptions == { KeepAbsent } \cup { KeepOf(n) : n \in (0 - 1)..MaxKeep }

\* const maxKeep = retention[tier] || 0
MaxKeepOf(entry) == IF entry.set THEN entry.n ELSE 0

\* A guard that lets a keep-count of 0 through to pruneTier.
SkipsTierIfNegative(maxKeep) == maxKeep < 0

\* if (maxKeep <= 0) { ...; continue; }
SkipsTier(maxKeep) == maxKeep <= 0

\* A comparator that sorts the newest file first.
OldestFirstReversed(a, b) == a.mtime >= b.mtime

\* fileStats.sort((a, b) => a.mtime.getTime() - b.mtime.getTime())
OldestFirst(a, b) == a.mtime <= b.mtime

IsSorted(seq) ==
    \A k \in 1..(Len(seq) - 1) : OldestFirst(seq[k], seq[k + 1])

\* The orders the sort can produce: readdir lists the files in any order
\* and the sort keeps files of equal mtime in that order.
SortedOrders(files) ==
    { seq \in [1..Cardinality(files) -> files] :
        /\ \A a, b \in 1..Cardinality(files) : a # b => seq[a] # seq[b]
        /\ IsSorted(seq) }

\* A slice that removes one file too many.
RemoveCountOffByOne(len, maxKeep) == len - maxKeep + 1

\* fileStats.slice(0, fileStats.length - maxKeep)
RemoveCount(len, maxKeep) == len - maxKeep

PrIdle ==
    /\ prPc = "off"
    /\ prRetention = [t \in Tiers |-> KeepAbsent]
    /\ prDisk = [t \in Tiers |-> {}]
    /\ prMeta = [t \in Tiers |-> {}]
    /\ prDisk0 = [t \in Tiers |-> {}]
    /\ prTierIdx = 1
    /\ prMaxKeep = 0
    /\ prRemove = << >>
    /\ prIdx = 1
    /\ prLog = [t \in Tiers |-> << >>]
    /\ prFaulty = FALSE

ArtifactFile(id, mtime) == [id |-> id, mtime |-> mtime]

\* A sidecar name built from another file's path.
MetaOfNeighbour(fileInfo) == fileInfo.id + 1

\* const metaPath = fileInfo.path + '.meta.json': the sidecar of the file.
MetaOf(fileInfo) == fileInfo.id

\* pruneBackups(db) with any retention policy; every tier directory holds
\* the same m files, of distinct modification times; the file system
\* performs every call.
PrInitAllTiers ==
    /\ prPc = "tier"
    /\ prRetention \in [Tiers -> KeepOptions]
    /\ \E m \in 0..MaxFiles :
         /\ prDisk = [t \in Tiers |-> { ArtifactFile(k, k) : k \in 1..m }]
         /\ prMeta = [t \in Tiers |-> 1..m]
    /\ prDisk0 = prDisk
    /\ prTierIdx = 1
    /\ prMaxKeep = 0
    /\ prRemove = << >>
    /\ prIdx = 1
    /\ prLog = [t \in Tiers |-> << >>]
    /\ prFaulty = FALSE

\* pruneBackups(db) where the policy names one tier; that tier holds up to
\* MaxFiles files with any modification times (equal ones too), with or
\* without sidecars; stat and unlink may fail.
PrInitOneTier ==
    /\ prPc = "tier"
    /\ \E t \in Tiers, n \in 1..MaxKeep, m \in 0..MaxFiles :
         /\ prRetention = [u \in Tiers |-> IF u = t THEN KeepOf(n) ELSE KeepAbsent]
         /\ \E mt \in [1..m -> 1..MaxFiles], sc \in {{}, 1..m} :
              /\ prDisk = [u \in Tiers |->
                             IF u = t THEN { ArtifactFile(k, mt[k]) : k \in 1..m }
                             ELSE {}]
              /\ prMeta = [u \in Tiers |-> IF u = t THEN sc ELSE {}]
    /\ prDisk0 = prDisk
    /\ prTierIdx = 1
    /\ prMaxKeep = 0
    /\ prRemove = << >>
    /\ prIdx = 1
    /\ prLog = [t \in Tiers |-> << >>]
    /\ prFaulty = TRUE

PrOthers == <<trVars, bkVars, rsVars, scVars, cnVars, fbVars, dmVars, ssVars>>

PrTier == TierNames[prTierIdx]

\* The body of the loop over the tiers, for a tier that is skipped.
PrSkipTier ==
    /\ prPc = "tier"
    /\ prTierIdx <= Len(TierNames)
    /\ SkipsTier(MaxKeepOf(prRetention[PrTier]))
    /\ prMaxKeep' = MaxKeepOf(prRetention[PrTier])
    /\ prTierIdx' = prTierIdx + 1
    /\ UNCHANGED <<prPc, prRetention, prDisk, prMeta, prDisk0, prRemove, prIdx,
                   prLog, prFaulty>>
    /\ UNCHANGED PrOthers

\* pruneTier(tierDir, maxKeep, tier) up to the loop over filesToRemove:
\* readdir, the filter of the .meta.json names, the count check, the stats,
\* the sort and the slice.  A failing stat throws into pruneTier's catch.
PrListTier ==
    /\ prPc = "tier"
    /\ prTierIdx <= Len(TierNames)
    /\ ~SkipsTier(MaxKeepOf(prRetention[PrTier]))
    /\ LET maxKeep == MaxKeepOf(prRetention[PrTier])
           backupFiles == prDisk[PrTier]
       IN  /\ prMaxKeep' = maxKeep
           /\ IF Cardinality(backupFiles) <= maxKeep
              THEN /\ prTierIdx' = prTierIdx + 1
                   /\ UNCHANGED <<prPc, prRemove, prIdx>>
              ELSE \E statOk \in {TRUE, ~prFaulty}, fileStats \in SortedOrders(backupFiles) :
                     LET filesToRemove ==
                           SubSeq(fileStats, 1, RemoveCount(Len(fileStats), maxKeep))
                     IN  IF ~statOk \/ Len(filesToRemove) = 0
                         THEN /\ prTierIdx' = prTierIdx + 1
                              /\ UNCHANGED <<prPc, prRemove, prIdx>>
                         ELSE /\ prRemove' = filesToRemove
                              /\ prIdx' = 1
                              /\ prPc' = "remove"
                              /\ UNCHANGED prTierIdx
    /\ UNCHANGED <<prRetention, prDisk, prMeta, prDisk0, prLog, prFaulty>>
    /\ UNCHANGED PrOthers

\* One round of for (const fileInfo of filesToRemove): unlink the file and
\* then its sidecar, if there is one; a failing unlink of the file is logged
\* and the loop goes on, a failing unlink of the sidecar is ignored.
PrRemoveOne ==
    /\ prPc = "remove"
    /\ prIdx <= Len(prRemove)
    /\ \E unlinkOk \in {TRUE, ~prFaulty}, metaOk \in {TRUE, ~prFaulty} :
         IF unlinkOk
         THEN /\ prDisk' = [prDisk EXCEPT ![PrTier] = @ \ {prRemove[prIdx]}]
              /\ prMeta' = [prMeta EXCEPT ![PrTier] =
                                IF metaOk THEN @ \ {MetaOf(prRemove[prIdx])} ELSE @]
              /\ prLog' = [prLog EXCEPT ![PrTier] =
                                Append(@, [file |-> prRemove[prIdx], ok |-> TRUE])]
         ELSE /\ prLog' = [prLog EXCEPT ![PrTier] =
                                Append(@, [file |-> prRemove[prIdx], ok |-> FALSE])]
              /\ UNCHANGED <<prDisk, prMeta>>
    /\ prIdx' = prIdx + 1
    /\ UNCHANGED <<prPc, prRetention, prDisk0, prTierIdx, prMaxKeep, prRemove, prFaulty>>
    /\ UNCHANGED PrOthers

\* The loop over filesToRemove is over: pruneTier returns, next tier.
PrTierDone ==
    /\ prPc = "remove"
    /\ prIdx > Len(prRemove)
    /\ prPc' = "tier"
    /\ prTierIdx' = prTierIdx + 1
    /\ UNCHANGED <<prRetention, prDisk, prMeta, prDisk0, prMaxKeep, prRemove, prIdx,
                   prLog, prFaulty>>
    /\ UNCHANGED PrOthers

\* The loop over the tiers is over: pruneBackups returns.
PrDone ==
    /\ prPc = "tier"
    /\ prTierIdx > Len(TierNames)
    /\ prPc' = "done"
    /\ UNCHANGED <<prRetention, prDisk, prMeta, prDisk0, prTierIdx, prMaxKeep,
                   prRemove, prIdx, prLog, prFaulty>>
    /\ UNCHANGED PrOthers

PrNext == PrSkipTier \/ PrListTier \/ PrRemoveOne \/ PrTierDone \/ PrDone

(***************************************************************************)
(* The verify-mode restore: BackupManager.testRestore, decryptBackupFile,  *)
(* decompressBackupFile, restoreBackup and testRestoreMysql /              *)
(* testRestorePostgres.  The server holds databases by name; the restore   *)
(* works on the stored artifact of one performBackup call, made and        *)
(* restored under the same configuration.                                  *)
(***************************************************************************)
\* The target's own database, and restore_${Date.now()}
OrigDb == "app"

TmpDb == "restore_ts"

\* The file performBackup stores for a raw dump: gzPath = sqlPath + '.gz',
\* and finalPath = gzPath + '.gpg' with the encrypted bytes when encryption
\* is configured.
ArtifactOf(cfg, raw) ==
    LET sql == FileName(raw.id, "")
    IN  IF EncryptionConfigured(cfg)
        THEN File(GpgPath(GzPath(sql)), EncryptWith(Gzip(raw), EncryptionKind(cfg)))
        ELSE File(GzPath(sql), Gzip(raw))

\* processedFile.endsWith('.gpg'), processedFile.endsWith('.gz')
EndsWithGpg(name) == name.ext = ".gz.gpg"

EndsWithGz(name) == name.ext = ".gz"

\* A DROP DATABASE that leaves the database in place.
DropDatabaseNoop(dbs, name) == dbs

\* DROP DATABASE IF EXISTS <name>
DropDatabaseIfExists(dbs, name) == dbs \ {name}

\* if (successCount === 0 && errorCount > 0) throw, in
\* executeStatementsIndividually; executePostgresStatementsIndividually has
\* no throw.
FallbackThrows(engine, successCount, errorCount) ==
    engine = "mysql" /\ successCount = 0 /\ errorCount > 0

\* What the execution of the SQL text did: the outcome of the query that
\* sends the whole text, whether the statement-by-statement fallback ran,
\* and the statements it counted as succeeded and as failed.
NoFallback == [bulk |-> "none", ran |-> FALSE, success |-> 0, errors |-> 0]

RsIdle ==
    /\ rsPc = "off"
    /\ rsEngine = "mysql"
    /\ rsCfg = [recipients |-> FALSE, passfile |-> FALSE]
    /\ rsRaw = EmptyFile
    /\ rsFile = File(NoName, EmptyFile)
    /\ rsContent = EmptyFile
    /\ rsDbs = {}
    /\ rsCreateTried = FALSE
    /\ rsCreated = FALSE
    /\ rsError = "none"
    /\ rsFallback = NoFallback

\* A stored artifact of a dump that passed performBackup's marker check, and
\* a server on which a database of the temporary name may already exist.
RsInit ==
    /\ rsPc = "start"
    /\ rsEngine \in Engines
    /\ rsCfg \in BackupConfigs
    /\ \E atStart \in BOOLEAN : rsRaw = RawDump(1, TRUE, atStart)
    /\ rsFile = ArtifactOf(rsCfg, rsRaw)
    /\ rsContent = EmptyFile
    /\ rsDbs \in { {OrigDb}, {OrigDb, TmpDb} }
    /\ rsCreateTried = FALSE
    /\ rsCreated = FALSE
    /\ rsError = "none"
    /\ rsFallback = NoFallback

RsOthers == <<trVars, bkVars, prVars, scVars, cnVars, fbVars, dmVars, ssVars>>

\* The path tmpFile() returns for the next decoded file.
RsTmpPath == FileName(rsFile.name.tmp + 1, "")

\* testRestore: if (processedFile.endsWith('.gpg')) processedFile =
\* await decryptBackupFile(processedFile, this.config).  The decryption needs
\* the passphrase file and offers the passphrase only.
RsDecrypt ==
    /\ rsPc = "start"
    /\ IF ~EndsWithGpg(rsFile.name)
       THEN /\ rsPc' = "decrypted"
            /\ UNCHANGED <<rsFile, rsError>>
       ELSE IF rsCfg.passfile /\ IsEncryptedWith(rsFile.data, "gpg-pass")
       THEN /\ rsFile' = File(RsTmpPath, DecryptLayer(rsFile.data))
            /\ rsPc' = "decrypted"
            /\ UNCHANGED rsError
       ELSE /\ rsPc' = "returned"
            /\ rsError' = "decrypt"
            /\ UNCHANGED rsFile
    /\ UNCHANGED <<rsEngine, rsCfg, rsRaw, rsContent, rsDbs, rsCreateTried, rsCreated,
                   rsFallback>>
    /\ UNCHANGED RsOthers

\* testRestore: if (processedFile.endsWith('.gz')) processedFile =
\* await decompressBackupFile(processedFile): gunzip, the marker check at the
\* start of the text, and the text written to a new temp file.
RsDecompress ==
    /\ rsPc = "decrypted"
    /\ IF ~EndsWithGz(rsFile.name)
       THEN /\ rsPc' = "decompressed"
            /\ UNCHANGED <<rsFile, rsError>>
       ELSE IF IsGzip(rsFile.data) /\ HasMarkerAtStart(Gunzip(rsFile.data))
       THEN /\ rsFile' = File(RsTmpPath, Gunzip(rsFile.data))
            /\ rsPc' = "decompressed"
            /\ UNCHANGED rsError
       ELSE /\ rsPc' = "returned"
            /\ rsError' = "decompress"
            /\ UNCHANGED rsFile
    /\ UNCHANGED <<rsEngine, rsCfg, rsRaw, rsContent, rsDbs, rsCreateTried, rsCreated,
                   rsFallback>>
    /\ UNCHANGED RsOthers

\* restoreBackup -> testRestoreMysql / testRestorePostgres: read the file,
\* backupContent = gunzipSync(compressedData), then the marker check.
RsReadBackup ==
    /\ rsPc = "decompressed"
    /\ IF ~IsGzip(rsFile.data)
       THEN /\ rsPc' = "returned"
            /\ rsError' = "gunzip"
            /\ UNCHANGED rsContent
       ELSE IF ~HasMarkerAtStart(Gunzip(rsFile.data))
       THEN /\ rsPc' = "returned"
            /\ rsError' = "invalid"
            /\ UNCHANGED rsContent
       ELSE /\ rsContent' = Gunzip(rsFile.data)
            /\ rsPc' = "read"
            /\ UNCHANGED rsError
    /\ UNCHANGED <<rsEngine, rsCfg, rsRaw, rsFile, rsDbs, rsCreateTried, rsCreated,
                   rsFallback>>
    /\ UNCHANGED RsOthers

\* mysql.createConnection({...}) / client.connect() to the server
RsConnect ==
    /\ rsPc = "read"
    /\ \E ok \in BOOLEAN :
         IF ok
         THEN rsPc' = "connected" /\ UNCHANGED rsError
         ELSE rsPc' = "returned" /\ rsError' = "connect"
    /\ UNCHANGED <<rsEngine, rsCfg, rsRaw, rsFile, rsContent, rsDbs, rsCreateTried,
                   rsCreated,
                   rsFallback>>
    /\ UNCHANGED RsOthers

\* The first statement of the outer try: CREATE DATABASE <tmpDbName>.  It
\* fails when a database of that name exists, or when the server refuses it.
RsCreateDatabase ==
    /\ rsPc = "connected"
    /\ rsCreateTried' = TRUE
    /\ \E ok \in BOOLEAN :
         IF ok /\ TmpDb \notin rsDbs
         THEN /\ rsDbs' = rsDbs \cup {TmpDb}
              /\ rsCreated' = TRUE
              /\ rsPc' = "created"
              /\ UNCHANGED rsError
         ELSE /\ rsPc' = "finally"
              /\ rsError' = "create"
              /\ UNCHANGED <<rsDbs, rsCreated>>
    /\ UNCHANGED <<rsEngine, rsCfg, rsRaw, rsFile, rsContent,
                   rsFallback>>
    /\ UNCHANGED RsOthers

\* The connection to the temporary database.  mysql.createConnection is
\* called before the inner try; restoreClient.connect() inside it.
RsRestoreConnect ==
    /\ rsPc = "created"
    /\ \E ok \in BOOLEAN :
         IF ok
         THEN rsPc' = "restoring" /\ UNCHANGED rsError
         ELSE /\ rsPc' = IF rsEngine = "postgres" THEN "ending" ELSE "finally"
              /\ rsError' = "connect"
    /\ UNCHANGED <<rsEngine, rsCfg, rsRaw, rsFile, rsContent, rsDbs, rsCreateTried,
                   rsCreated,
                   rsFallback>>
    /\ UNCHANGED RsOthers

\* restoreConn.query(backupContent); on an error the statement-by-statement
\* fallback, which counts the statements that succeeded and that failed.
RsExecute ==
    /\ rsPc = "restoring"
    /\ \E bulkOk \in BOOLEAN, successCount \in 0..1, errorCount \in 0..1 :
         /\ rsFallback' = IF bulkOk THEN [NoFallback EXCEPT !.bulk = "ok"]
                          ELSE [bulk |-> "failed", ran |-> TRUE,
                                success |-> successCount, errors |-> errorCount]
         /\ IF bulkOk \/ ~FallbackThrows(rsEngine, successCount, errorCount)
            THEN rsPc' = "executed" /\ UNCHANGED rsError
            ELSE rsPc' = "ending" /\ rsError' = "execute"
    /\ UNCHANGED <<rsEngine, rsCfg, rsRaw, rsFile, rsContent, rsDbs, rsCreateTried,
                   rsCreated>>
    /\ UNCHANGED RsOthers

\* The verification query (and, on MySQL, SHOW TABLES).
RsVerify ==
    /\ rsPc = "executed"
    /\ \E ok \in BOOLEAN :
         /\ rsError' = IF ok THEN rsError ELSE "verify"
         /\ rsPc' = "ending"
    /\ UNCHANGED <<rsEngine, rsCfg, rsRaw, rsFile, rsContent, rsDbs, rsCreateTried,
                   rsCreated,
                   rsFallback>>
    /\ UNCHANGED RsOthers

\* inner finally: await restoreConn.end() / restoreClient.end()
RsEndRestoreConn ==
    /\ rsPc = "ending"
    /\ rsPc' = "finally"
    /\ UNCHANGED <<rsEngine, rsCfg, rsRaw, rsFile, rsContent, rsDbs, rsCreateTried,
                   rsCreated, rsError,
                   rsFallback>>
    /\ UNCHANGED RsOthers

\* outer finally: DROP DATABASE IF EXISTS <tmpDbName>, connection.end();
\* then the error, if any, is rethrown to the caller.
RsDropDatabase ==
    /\ rsPc = "finally"
    /\ rsDbs' = DropDatabaseIfExists(rsDbs, TmpDb)
    /\ rsPc' = "returned"
    /\ UNCHANGED <<rsEngine, rsCfg, rsRaw, rsFile, rsContent, rsCreateTried, rsCreated,
                   rsError,
                   rsFallback>>
    /\ UNCHANGED RsOthers

RsNext ==
    \/ RsDecrypt
    \/ RsDecompress
    \/ RsReadBackup
    \/ RsConnect
    \/ RsCreateDatabase
    \/ RsRestoreConnect
    \/ RsExecute
    \/ RsVerify
    \/ RsEndRestoreConn
    \/ RsDropDatabase

(***************************************************************************)
(* The destructive restore: BackupManager.actualRestore decodes the        *)
(* artifact with the steps of the verify-mode restore (RsDecrypt,          *)
(* RsDecompress) and calls actualRestore of backup/actual-restore.js,      *)
(* which restores into the database of the target's name.  It uses the     *)
(* variables of the verify-mode restore; the connections are opened and    *)
(* closed as there (RsConnect, RsRestoreConnect, RsEndRestoreConn).        *)
(***************************************************************************)
\* actualRestore: only 'mysql' is supported.  actualRestoreMysql: read the
\* file and gunzipSync it; there is no marker check.
ArRead ==
    /\ rsPc = "decompressed"
    /\ IF rsEngine # "mysql"
       THEN /\ rsPc' = "returned"
            /\ rsError' = "unsupported"
            /\ UNCHANGED rsContent
       ELSE IF ~IsGzip(rsFile.data)
       THEN /\ rsPc' = "returned"
            /\ rsError' = "gunzip"
            /\ UNCHANGED rsContent
       ELSE /\ rsContent' = Gunzip(rsFile.data)
            /\ rsPc' = "read"
            /\ UNCHANGED rsError
    /\ UNCHANGED <<rsEngine, rsCfg, rsRaw, rsFile, rsDbs, rsCreateTried, rsCreated,
                   rsFallback>>
    /\ UNCHANGED RsOthers

\* DROP DATABASE IF EXISTS <target>; CREATE DATABASE <target>
ArRecreate ==
    /\ rsPc = "connected"
    /\ rsCreateTried' = TRUE
    /\ \E dropOk \in BOOLEAN, createOk \in BOOLEAN :
         IF ~dropOk
         THEN /\ rsPc' = "finally"
              /\ rsError' = "drop"
              /\ UNCHANGED <<rsDbs, rsCreated>>
         ELSE IF ~createOk
         THEN /\ rsDbs' = DropDatabaseIfExists(rsDbs, OrigDb)
              /\ rsPc' = "finally"
              /\ rsError' = "create"
              /\ UNCHANGED rsCreated
         ELSE /\ rsDbs' = DropDatabaseIfExists(rsDbs, OrigDb) \cup {OrigDb}
              /\ rsCreated' = TRUE
              /\ rsPc' = "created"
              /\ UNCHANGED rsError
    /\ UNCHANGED <<rsEngine, rsCfg, rsRaw, rsFile, rsContent, rsFallback>>
    /\ UNCHANGED RsOthers

\* await restoreConn.query(backupContent), inside a try that has a finally
\* and no catch: an error of the query leaves the function.
ArExecute ==
    /\ rsPc = "restoring"
    /\ \E bulkOk \in BOOLEAN :
         /\ rsFallback' = [NoFallback EXCEPT !.bulk = IF bulkOk THEN "ok" ELSE "failed"]
         /\ IF bulkOk
            THEN rsPc' = "executed" /\ UNCHANGED rsError
            ELSE rsPc' = "ending" /\ rsError' = "execute"
    /\ UNCHANGED <<rsEngine, rsCfg, rsRaw, rsFile, rsContent, rsDbs, rsCreateTried,
                   rsCreated>>
    /\ UNCHANGED RsOthers

\* const [tables] = await restoreConn.query(`SHOW TABLES`)
ArShowTables ==
    /\ rsPc = "executed"
    /\ \E ok \in BOOLEAN :
         /\ rsError' = IF ok THEN rsError ELSE "verify"
         /\ rsPc' = "ending"
    /\ UNCHANGED <<rsEngine, rsCfg, rsRaw, rsFile, rsContent, rsDbs, rsCreateTried,
                   rsCreated, rsFallback>>
    /\ UNCHANGED RsOthers

\* outer finally: await connection.end(); the error, if any, is rethrown.
ArEnd ==
    /\ rsPc = "finally"
    /\ rsPc' = "returned"
    /\ UNCHANGED <<rsEngine, rsCfg, rsRaw, rsFile, rsContent, rsDbs, rsCreateTried,
                   rsCreated, rsError, rsFallback>>
    /\ UNCHANGED RsOthers

ArNext ==
    \/ RsDecrypt
    \/ RsDecompress
    \/ ArRead
    \/ RsConnect
    \/ ArRecreate
    \/ RsRestoreConnect
    \/ ArExecute
    \/ ArShowTables
    \/ RsEndRestoreConn
    \/ ArEnd

(***************************************************************************)
(* The scheduler cycle.  Two schedulers run it: the PowerBackupScheduler   *)
(* class (scheduler.js: start() runs a cycle and then arms an hourly timer *)
(* whose callback runs a cycle) and the command line (cli.js:              *)
(* scheduler:daemon loops over runHourlyBackups and a one-hour sleep;      *)
(* scheduler:once, started every hour, runs the same cycles one process    *)
(* after the other).  A cycle walks config.databases; of a target's        *)
(* directory the model keeps the number of artifact files of the hourly    *)
(* tier, where performBackup places its artifact.                          *)
(***************************************************************************)
\* config.databases
Databases == << "db1", "db2" >>

DbIdx == 1..Len(Databases)

SchedulerKinds == { "class", "cli" }

\* db.test_restore.hour || 3
DefaultTestHour == 3

\* Hours of the day the model tells apart: midnight, the default hour and
\* another hour.
Hours == { 0, 1, DefaultTestHour }

\* db.test_restore: absent, or { enabled: true, hour: h } as add-db writes it
TestRestoreOptions ==
    { [enabled |-> FALSE, hour |-> DefaultTestHour] }
    \cup { [enabled |-> TRUE, hour |-> h] : h \in Hours }

\* (db.test_restore.hour || 3): an hour of 0 is falsy
TestHourOf(test) == IF test.hour = 0 THEN DefaultTestHour ELSE test.hour

\* db.test_restore?.enabled && hour === (db.test_restore.hour || 3)
VerifyDue(test, hour) == test.enabled /\ hour = TestHourOf(test)

\* Whether the artifact path is a binding where testRestore is called with
\* it: runHourlyBackups declares dest in the block of the call;
\* processDatabase declares backupPath inside the try block of step 1 and
\* names it in step 2, outside that block, where evaluating the argument
\* throws a ReferenceError before the call is made.
ArtifactPathInScope(kind) == kind = "cli"

\* A failure that ends the whole cycle.
AfterFailureAbort(i) == Len(Databases) + 1

\* The index of the target the loop goes on with after target i has failed:
\* the catch inside the for loop logs, and the loop continues.
AfterFailure(i) == i + 1

NoCycle ==
    [pc |-> "pending", idx |-> 0, attempted |-> {}, backedUp |-> {},
     hour |-> 0, ran |-> FALSE, threw |-> FALSE]

ReturnedCycle == [NoCycle EXCEPT !.pc = "returned"]

\* for (const db of config.databases || []): the loop takes target i, or
\* ends when there is none.
LoopAt(rec, i) ==
    IF i \in DbIdx
    THEN [rec EXCEPT !.pc = "backup", !.idx = i,
                     !.attempted = rec.attempted \cup {i},
                     !.hour = 0, !.ran = FALSE, !.threw = FALSE]
    ELSE [rec EXCEPT !.pc = "done", !.idx = 0,
                     !.hour = 0, !.ran = FALSE, !.threw = FALSE]

\* A failed backup after which the steps for the target go on.
AfterBackupErrorGoesOn(rec) == [rec EXCEPT !.pc = "verify"]

\* performBackup threw: processDatabase logs and returns, the catch of
\* runHourlyBackups' loop body logs; the loop takes the next target.
AfterBackupError(rec) == LoopAt(rec, AfterFailure(rec.idx))

\* A cycle is running from its start until runScheduledTasks /
\* runHourlyBackups has returned.
Running(rec) == rec.pc \notin { "pending", "returned" }

\* The scheduler's process: running, or ended - by process.exit(1) after
\* the configuration failed to load ("config") or by a termination signal
\* ("signal"); cut holds the steps that were in progress when it ended.
NotExited == [why |-> "none", cut |-> {}]

\* runHourlyBackups begins with const config = await loadConfig(), which may
\* throw; runScheduledTasks uses the configuration main() has loaded.
ConfigLoads(kind) == IF kind = "cli" THEN BOOLEAN ELSE {TRUE}

\* The process ends: what it held in memory - its cycles, its timer - is
\* gone; the files stay.
Exit(why) ==
    /\ scExit' = [why |-> why,
                  cut |-> { scCycle[c].pc :
                            c \in { k \in 1..MaxCycles : Running(scCycle[k]) } }]
    /\ scCycle' = [c \in 1..MaxCycles |-> NoCycle]
    /\ scStarted' = 0
    /\ scTimer' = FALSE

ScIdle ==
    /\ scKind = "class"
    /\ scTest = [i \in DbIdx |-> [enabled |-> FALSE, hour |-> DefaultTestHour]]
    /\ scKeep = 0
    /\ scFiles = [i \in DbIdx |-> 0]
    /\ scTimer = FALSE
    /\ scStarted = 0
    /\ scCycle = [c \in 1..MaxCycles |-> NoCycle]
    /\ scExit = NotExited

\* A scheduler that has been constructed, with the configuration it loaded:
\* the verification setting of the targets (the targets are configured
\* alike) and the hourly keep-count of default_keep, and target directories
\* that hold no artifact yet.
ScInit ==
    /\ scKind \in SchedulerKinds
    /\ \E test \in TestRestoreOptions : scTest = [i \in DbIdx |-> test]
    /\ scKeep \in 0..1
    /\ scFiles = [i \in DbIdx |-> 0]
    /\ scTimer = FALSE
    /\ scStarted = 0
    /\ scCycle = [c \in 1..MaxCycles |-> NoCycle]
    /\ scExit = NotExited

ScOthers == <<trVars, bkVars, prVars, rsVars, cnVars, fbVars, dmVars, ssVars>>

\* start(): await this.runScheduledTasks(), and the first pass of the loop
\* of scheduler:daemon: the first cycle (in runHourlyBackups after the
\* configuration has loaded; else process.exit(1)).
ScStart ==
    /\ scExit = NotExited
    /\ scStarted = 0
    /\ \E ok \in ConfigLoads(scKind) :
         IF ok
         THEN /\ scStarted' = 1
              /\ scCycle' = [scCycle EXCEPT ![1] = LoopAt(NoCycle, 1)]
              /\ UNCHANGED <<scTimer, scExit>>
         ELSE Exit("config")
    /\ UNCHANGED <<scKind, scTest, scKeep, scFiles>>
    /\ UNCHANGED ScOthers

\* The callback of setInterval(async () => { await this.runScheduledTasks() },
\* one hour): the timer fires whether or not the cycle of an earlier tick
\* has returned.
ScTick ==
    /\ scKind = "class"
    /\ scExit = NotExited
    /\ scTimer
    /\ scStarted < MaxCycles
    /\ scStarted' = scStarted + 1
    /\ scCycle' = [scCycle EXCEPT ![scStarted + 1] = LoopAt(NoCycle, 1)]
    /\ UNCHANGED <<scKind, scTest, scKeep, scFiles, scTimer, scExit>>
    /\ UNCHANGED ScOthers

\* while (true) { await runHourlyBackups(); await sleep(one hour) }: the next
\* pass begins after the cycle before it has returned and the sleep is over.
\* When loadConfig throws, the outer catch of runHourlyBackups logs and
\* calls process.exit(1).
ScLoop ==
    /\ scKind = "cli"
    /\ scExit = NotExited
    /\ scStarted \in 1..(MaxCycles - 1)
    /\ scCycle[scStarted].pc = "returned"
    /\ \E ok \in ConfigLoads(scKind) :
         IF ok
         THEN /\ scStarted' = scStarted + 1
              /\ scCycle' = [scCycle EXCEPT ![scStarted + 1] = LoopAt(NoCycle, 1)]
              /\ UNCHANGED <<scTimer, scExit>>
         ELSE Exit("config")
    /\ UNCHANGED <<scKind, scTest, scKeep, scFiles>>
    /\ UNCHANGED ScOthers

\* await this.manager.performBackup(db): the artifact is placed in the hourly
\* tier and its path returned, or the call throws; the catch logs (and in
\* processDatabase returns) and the loop goes on with the next target.
ScBackup ==
    /\ scExit = NotExited
    /\ \E c \in 1..MaxCycles, ok \in BOOLEAN :
        LET rec == scCycle[c]
        IN  /\ rec.pc = "backup"
            /\ IF ok
               THEN /\ scFiles' = [scFiles EXCEPT ![rec.idx] = @ + 1]
                    /\ scCycle' = [scCycle EXCEPT ![c] =
                                     [rec EXCEPT !.pc = "verify",
                                                 !.backedUp = @ \cup {rec.idx}]]
               ELSE /\ scFiles' = scFiles
                    /\ scCycle' = [scCycle EXCEPT ![c] = AfterBackupError(rec)]
            /\ UNCHANGED <<scKind, scTest, scKeep, scTimer, scStarted, scExit>>
            /\ UNCHANGED ScOthers

\* The verification step: new Date().getHours() is compared with the
\* target's hour, and when verification is due testRestore is called with
\* the path of the artifact - if that path can be named.  threw: the step
\* raised an error (the ReferenceError, or testRestore failed).
ScVerify ==
    /\ scExit = NotExited
    /\ \E c \in 1..MaxCycles, hour \in Hours :
        LET rec == scCycle[c]
            due == VerifyDue(scTest[rec.idx], hour)
            ran == due /\ ArtifactPathInScope(scKind)
        IN  /\ rec.pc = "verify"
            /\ \E ok \in IF ran THEN BOOLEAN ELSE {TRUE} :
                 scCycle' = [scCycle EXCEPT ![c] =
                               [rec EXCEPT !.pc = "verified", !.hour = hour,
                                           !.ran = ran,
                                           !.threw = due /\ (~ran \/ ~ok)]]
            /\ UNCHANGED <<scKind, scTest, scKeep, scFiles, scTimer, scStarted, scExit>>
            /\ UNCHANGED ScOthers

\* processDatabase: an error of step 2 is caught and logged there; then
\* await this.pruneBackups(db).  Of the tiers the hourly one is followed:
\* skipped for a keep-count of 0, else the excess files are unlinked, oldest
\* first; an unlink that fails is logged and the file stays.  pruneBackups
\* catches every error.  Then the loop goes on.
ScPrune ==
    /\ scExit = NotExited
    /\ \E c \in 1..MaxCycles :
        LET rec == scCycle[c]
            len == scFiles[rec.idx]
            excess == IF SkipsTier(scKeep) \/ RemoveCount(len, scKeep) < 0
                      THEN 0 ELSE RemoveCount(len, scKeep)
        IN  /\ scKind = "class"
            /\ rec.pc = "verified"
            /\ \E removed \in 0..excess :
                 scFiles' = [scFiles EXCEPT ![rec.idx] = len - removed]
            /\ scCycle' = [scCycle EXCEPT ![c] = LoopAt(rec, rec.idx + 1)]
            /\ UNCHANGED <<scKind, scTest, scKeep, scTimer, scStarted, scExit>>
            /\ UNCHANGED ScOthers

\* runHourlyBackups: the body of the loop ends after the verification step;
\* an error of testRestore reaches the catch of the loop body, which logs.
ScEndBody ==
    /\ scExit = NotExited
    /\ \E c \in 1..MaxCycles :
        LET rec == scCycle[c]
        IN  /\ scKind = "cli"
            /\ rec.pc = "verified"
            /\ scCycle' = [scCycle EXCEPT ![c] =
                             LoopAt(rec, IF rec.threw THEN AfterFailure(rec.idx)
                                         ELSE rec.idx + 1)]
            /\ UNCHANGED <<scKind, scTest, scKeep, scFiles, scTimer, scStarted, scExit>>
            /\ UNCHANGED ScOthers

\* runScheduledTasks / runHourlyBackups returns.  In start() the timer is
\* armed once the first cycle has returned.
ScReturn ==
    /\ scExit = NotExited
    /\ \E c \in 1..MaxCycles :
        /\ scCycle[c].pc = "done"
        /\ scCycle' = [scCycle EXCEPT ![c] = ReturnedCycle]
        /\ scTimer' = (scTimer \/ (scKind = "class" /\ c = 1))
        /\ UNCHANGED <<scKind, scTest, scKeep, scFiles, scStarted, scExit>>
        /\ UNCHANGED ScOthers

\* SIGINT or SIGTERM.  scheduler.js registers its handlers in main() after
\* await scheduler.start() has returned, that is after the first cycle; the
\* handler awaits stop(), which sets isRunning to false, and calls
\* process.exit(0).  Before that, and in cli.js, which registers no handler,
\* the signal ends the process by default.  In every case the process ends
\* without waiting for a cycle.
ScSignal ==
    /\ scExit = NotExited
    /\ Exit("signal")
    /\ UNCHANGED <<scKind, scTest, scKeep, scFiles>>
    /\ UNCHANGED ScOthers

ScNext ==
    \/ ScSignal
    \/ ScStart
    \/ ScTick
    \/ ScLoop
    \/ ScBackup
    \/ ScVerify
    \/ ScPrune
    \/ ScEndBody
    \/ ScReturn

(***************************************************************************)
(* create-now (cli.js createNow): one process per call; it loads the       *)
(* configuration, looks the target up by name and calls performBackup,     *)
(* which places the artifact in the target's hourly tier.  The tier is the *)
(* sequence of the calls whose artifact it holds, oldest first;             *)
(* cnProduced is the set of the calls that returned an artifact.           *)
(***************************************************************************)
\* config.databases has one target; the name on the command line is its
\* name or another one.
CnNames == { "t1", "other" }

CnConfigured == "t1"

CnIdle ==
    /\ cnPc = "off"
    /\ cnKeep = 0
    /\ cnName = CnConfigured
    /\ cnCalls = 0
    /\ cnTier = << >>
    /\ cnProduced = {}
    /\ cnExit = 0

\* The target's keep.hourly, and an empty hourly tier.
CnInit ==
    /\ cnPc = "idle"
    /\ cnKeep \in 0..MaxKeep
    /\ cnName = CnConfigured
    /\ cnCalls = 0
    /\ cnTier = << >>
    /\ cnProduced = {}
    /\ cnExit = 0

CnOthers == <<trVars, bkVars, prVars, rsVars, scVars, fbVars, dmVars, ssVars>>

\* powerbackup create-now <name>
CnInvoke ==
    /\ cnPc = "idle"
    /\ cnCalls < MaxCreateNow
    /\ cnCalls' = cnCalls + 1
    /\ cnName' \in CnNames
    /\ cnPc' = "config"
    /\ cnExit' = 0
    /\ UNCHANGED <<cnKeep, cnTier, cnProduced>>
    /\ UNCHANGED CnOthers

\* const config = await loadConfig(); an error is logged and the process
\* exits with status 1.
CnLoadConfig ==
    /\ cnPc = "config"
    /\ \E ok \in BOOLEAN :
         IF ok
         THEN cnPc' = "find" /\ cnExit' = cnExit
         ELSE cnPc' = "idle" /\ cnExit' = 1
    /\ UNCHANGED <<cnKeep, cnName, cnCalls, cnTier, cnProduced>>
    /\ UNCHANGED CnOthers

\* const db = config.databases?.find(d => d.name === name);
\* if (!db) throw new Error(`Database ${name} not found`)
CnFind ==
    /\ cnPc = "find"
    /\ IF cnName = CnConfigured
       THEN cnPc' = "backup" /\ cnExit' = cnExit
       ELSE cnPc' = "idle" /\ cnExit' = 1
    /\ UNCHANGED <<cnKeep, cnName, cnCalls, cnTier, cnProduced>>
    /\ UNCHANGED CnOthers

\* const dest = await manager.performBackup(db); log.success(...): the
\* artifact is in the hourly tier, or performBackup threw and the process
\* exits with status 1.  createNow ends here.
CnPerformBackup ==
    /\ cnPc = "backup"
    /\ \E ok \in BOOLEAN :
         IF ok
         THEN /\ cnTier' = Append(cnTier, cnCalls)
              /\ cnProduced' = cnProduced \cup {cnCalls}
              /\ cnExit' = cnExit
         ELSE /\ cnTier' = cnTier
              /\ cnProduced' = cnProduced
              /\ cnExit' = 1
    /\ cnPc' = "idle"
    /\ UNCHANGED <<cnKeep, cnName, cnCalls>>
    /\ UNCHANGED CnOthers

CnNext == CnInvoke \/ CnLoadConfig \/ CnFind \/ CnPerformBackup

(***************************************************************************)
(* The statement-by-statement fallback: executeStatementsIndividually      *)
(* (MySQL) and executePostgresStatementsIndividually.  The SQL text is a   *)
(* sequence of tokens: the characters the splitters test - the terminator, *)
(* the two quotes, the backslash -, "x" for any other text, and one token  *)
(* for each group of statement keywords the skip patterns tell apart:      *)
(* "GRANT" for CREATE USER, GRANT and REVOKE, "PASSWORD" for SET PASSWORD, *)
(* "ROLE" for ALTER ROLE and CREATE ROLE.                                  *)
(***************************************************************************)
SqlTokens == { "x", ";", "'", "\"", "\\", "GRANT", "PASSWORD", "ROLE" }

RECURSIVE TextsOfLen(_)
TextsOfLen(n) ==
    IF n = 0 THEN { << >> }
    ELSE { Append(t, c) : t \in TextsOfLen(n - 1), c \in SqlTokens }

SqlTexts == UNION { TextsOfLen(n) : n \in 0..MaxTokens }

\* The scanner of executeStatementsIndividually from character i on: the
\* positions at which it ends a statement.  quoteChar is "" for null.
RECURSIVE MySqlScan(_, _, _, _, _)
MySqlScan(text, i, inString, quoteChar, escapeNext) ==
    IF i > Len(text) THEN {}
    ELSE LET char == text[i]
         IN  IF escapeNext
             THEN MySqlScan(text, i + 1, inString, quoteChar, FALSE)
             ELSE IF char = "\\"
             THEN MySqlScan(text, i + 1, inString, quoteChar, TRUE)
             ELSE IF char \in {"'", "\""} /\ ~inString
             THEN MySqlScan(text, i + 1, TRUE, char, FALSE)
             ELSE IF char = quoteChar /\ inString
             THEN MySqlScan(text, i + 1, FALSE, "", FALSE)
             ELSE IF char = ";" /\ ~inString
             THEN {i} \cup MySqlScan(text, i + 1, inString, quoteChar, FALSE)
             ELSE MySqlScan(text, i + 1, inString, quoteChar, FALSE)

\* sqlContent.split(';'): every terminator ends a piece.
PgSplit(text) == { i \in 1..Len(text) : text[i] = ";" }

SplitPositions(engine, text) ==
    IF engine = "mysql" THEN MySqlScan(text, 1, FALSE, "", FALSE) ELSE PgSplit(text)

\* The statements the split yields from position from on: the scanner keeps
\* the terminator in the statement, split(';') drops it; a piece that is
\* empty after trim() is dropped.
RECURSIVE PiecesFrom(_, _, _, _)
PiecesFrom(text, from, cuts, keepTerminator) ==
    LET ahead == { c \in cuts : c >= from }
    IN  IF ahead = {}
        THEN IF from <= Len(text) THEN << SubSeq(text, from, Len(text)) >> ELSE << >>
        ELSE LET c == CHOOSE m \in ahead : \A o \in ahead : m <= o
                 piece == SubSeq(text, from, IF keepTerminator THEN c ELSE c - 1)
                 rest == PiecesFrom(text, c + 1, cuts, keepTerminator)
             IN  IF piece = << >> THEN rest ELSE << piece >> \o rest

\* skipPatterns of the two functions
SkipPatterns(engine) ==
    IF engine = "mysql" THEN { "GRANT", "PASSWORD" } ELSE { "GRANT", "ROLE" }

\* skipPatterns.some(re => re.test(statement)): a pattern matches anywhere
\* in the statement.
Skipped(engine, statement) ==
    \E k \in 1..Len(statement) : statement[k] \in SkipPatterns(engine)

FbIdle ==
    /\ fbPc = "off"
    /\ fbEngine = "mysql"
    /\ fbText = << >>
    /\ fbCuts = {}
    /\ fbStatements = << >>
    /\ fbSent = << >>
    /\ fbConn = "up"
    /\ fbLostAt = 0

\* The fallback is called with the text of a dump.
FbInit ==
    /\ fbPc = "start"
    /\ fbEngine \in Engines
    /\ fbText \in SqlTexts
    /\ fbCuts = {}
    /\ fbStatements = << >>
    /\ fbSent = << >>
    /\ fbConn = "up"
    /\ fbLostAt = 0

FbOthers == <<trVars, bkVars, prVars, rsVars, scVars, cnVars, dmVars, ssVars>>

\* The text is split into statements.
FbSplit ==
    /\ fbPc = "start"
    /\ fbCuts' = SplitPositions(fbEngine, fbText)
    /\ fbStatements' = PiecesFrom(fbText, 1, SplitPositions(fbEngine, fbText),
                                  fbEngine = "mysql")
    /\ fbPc' = "loop"
    /\ UNCHANGED <<fbEngine, fbText, fbSent, fbConn, fbLostAt>>
    /\ UNCHANGED FbOthers

\* What query(statement) comes back with: no error, or an error that is or
\* is not the loss of the connection and whose message does or does not
\* hold 'connection' or 'closed'.  On a lost connection every query fails.
NoError == [failed |-> FALSE, lost |-> FALSE, mentions |-> FALSE]

QueryOutcomes(conn) ==
    IF conn = "up"
    THEN { NoError } \cup [failed : {TRUE}, lost : BOOLEAN, mentions : BOOLEAN]
    ELSE [failed : {TRUE}, lost : {TRUE}, mentions : BOOLEAN]

\* if (err.message.includes('connection') || err.message.includes('closed'))
\* break;  - in executeStatementsIndividually only.
Breaks(engine, err) == engine = "mysql" /\ err.failed /\ err.mentions

\* if (connection.state === 'disconnected') throw new Error('Connection lost
\* during restore')  - in executeStatementsIndividually only: whether the
\* connection object shows the loss is the driver's matter.
StateChecks(engine, conn) ==
    IF engine = "mysql" /\ conn = "lost" THEN BOOLEAN ELSE { FALSE }

\* for (const statement of statements): a statement that matches a skip
\* pattern is passed over; any other is sent with query(statement), unless
\* the state check throws first.  An error is counted and the loop goes on,
\* or leaves with break.
FbStatement ==
    /\ fbPc = "loop"
    /\ fbStatements # << >>
    /\ fbStatements' = Tail(fbStatements)
    /\ IF Skipped(fbEngine, Head(fbStatements))
       THEN UNCHANGED <<fbPc, fbSent, fbConn, fbLostAt>>
       ELSE \E disconnected \in StateChecks(fbEngine, fbConn) :
              IF disconnected
              THEN UNCHANGED <<fbPc, fbSent, fbConn, fbLostAt>>
              ELSE \E err \in QueryOutcomes(fbConn) :
                     /\ fbSent' = Append(fbSent, Head(fbStatements))
                     /\ fbConn' = IF err.lost THEN "lost" ELSE fbConn
                     /\ fbLostAt' = IF err.lost /\ fbLostAt = 0
                                    THEN Len(fbSent) + 1 ELSE fbLostAt
                     /\ fbPc' = IF Breaks(fbEngine, err) THEN "done" ELSE fbPc
    /\ UNCHANGED <<fbEngine, fbText, fbCuts>>
    /\ UNCHANGED FbOthers

\* The loop is over.
FbDone ==
    /\ fbPc = "loop"
    /\ fbStatements = << >>
    /\ fbPc' = "done"
    /\ UNCHANGED <<fbEngine, fbText, fbCuts, fbStatements, fbSent, fbConn, fbLostAt>>
    /\ UNCHANGED FbOthers

FbNext == FbSplit \/ FbStatement \/ FbDone

(***************************************************************************)
(* Producing a dump: createPostgresDump and createMySQLDump try the        *)
(* engine's dump tool and fall back to a dump made through the driver.     *)
(***************************************************************************)
\* What the configured url is to the server: usable, naming a host that
\* cannot be reached, carrying credentials the server rejects, or not a
\* url at all.
DumpUrls == { "good", "badhost", "badcreds", "malformed" }

\* The two kinds of url on which every connection fails.
ConnectionErrorUrls == { "badhost", "badcreds" }

\* The exit codes the dump tool can end with when it is run against the url.
ExitCodes(url) == IF url = "good" THEN { 0, 1 } ELSE { 1 }

\* The names bound in the module of each engine's dump function: postgres.js
\* imports runPgDump; mysql.js imports mysql, createWriteStream and log, and
\* calls runMySQLDump, which it neither imports nor defines.
CliRunnerBound(engine) == engine = "postgres"

DmIdle ==
    /\ dmPc = "off"
    /\ dmEngine = "mysql"
    /\ dmUrl = "good"
    /\ dmBinary = "present"
    /\ dmExit = 0
    /\ dmTables = 0
    /\ dmSpawned = FALSE
    /\ dmCliErr = "none"
    /\ dmFallbackRan = FALSE
    /\ dmFile = [by |-> "none", tables |-> 0]
    /\ dmError = "none"

\* createDump calls the dump function of the target's engine.  dmBinary and
\* dmExit are the environment: whether the tool can be executed, and the
\* code it ends with if it is run.
DmInit ==
    /\ dmPc = "cli"
    /\ dmEngine \in Engines
    /\ dmUrl \in DumpUrls
    /\ dmBinary \in { "present", "missing" }
    /\ dmExit \in ExitCodes(dmUrl)
    /\ dmTables \in 0..MaxTables
    /\ dmSpawned = FALSE
    /\ dmCliErr = "none"
    /\ dmFallbackRan = FALSE
    /\ dmFile = [by |-> "none", tables |-> 0]
    /\ dmError = "none"

DmOthers == <<trVars, bkVars, prVars, rsVars, scVars, cnVars, fbVars, ssVars>>

\* catch (cliErr): the error is logged as a warning and the function goes on
\* to the driver-level dump.
CliFailed(err) ==
    /\ dmCliErr' = err
    /\ dmPc' = "fallback"

\* try { await run...Dump(url, outputPath) } up to the start of the tool:
\* the call of an unbound name throws a ReferenceError; runPgDump parses the
\* url, tests the binary with --version and spawns it.
DmRunCli ==
    /\ dmPc = "cli"
    /\ IF ~CliRunnerBound(dmEngine)
       THEN CliFailed("reference") /\ UNCHANGED dmSpawned
       ELSE IF dmUrl = "malformed"
       THEN CliFailed("url") /\ UNCHANGED dmSpawned
       ELSE IF dmBinary = "missing"
       THEN CliFailed("binary") /\ UNCHANGED dmSpawned
       ELSE /\ dmSpawned' = TRUE
            /\ dmPc' = "spawned"
            /\ UNCHANGED dmCliErr
    /\ UNCHANGED <<dmEngine, dmUrl, dmBinary, dmExit, dmTables, dmFallbackRan,
                   dmFile, dmError>>
    /\ UNCHANGED DmOthers

\* child.on('close'): code 0 resolves and the dump function returns with the
\* tool's output; any other code rejects.
DmCliClose ==
    /\ dmPc = "spawned"
    /\ IF dmExit = 0
       THEN /\ dmFile' = [by |-> "tool", tables |-> dmTables]
            /\ dmPc' = "returned"
            /\ UNCHANGED dmCliErr
       ELSE /\ CliFailed("exit")
            /\ dmFile' = [by |-> "tool-partial", tables |-> 0]
    /\ UNCHANGED <<dmEngine, dmUrl, dmBinary, dmExit, dmTables, dmSpawned,
                   dmFallbackRan, dmError>>
    /\ UNCHANGED DmOthers

\* The fallback connects through the driver; a failure is rethrown as
\* "... dump failed".  On success the output file is opened anew and the
\* header written.
DmFallbackConnect ==
    /\ dmPc = "fallback"
    /\ dmFallbackRan' = TRUE
    /\ IF dmUrl = "good"
       THEN /\ dmFile' = [by |-> "fallback", tables |-> 0]
            /\ dmPc' = "tables"
            /\ UNCHANGED dmError
       ELSE /\ dmError' = "dump failed"
            /\ dmPc' = "returned"
            /\ UNCHANGED dmFile
    /\ UNCHANGED <<dmEngine, dmUrl, dmBinary, dmExit, dmTables, dmSpawned, dmCliErr>>
    /\ UNCHANGED DmOthers

\* for (const table of tables): one table is written to the file.
DmFallbackTable ==
    /\ dmPc = "tables"
    /\ dmFile.tables < dmTables
    /\ dmFile' = [dmFile EXCEPT !.tables = @ + 1]
    /\ UNCHANGED <<dmPc, dmEngine, dmUrl, dmBinary, dmExit, dmTables, dmSpawned,
                   dmCliErr, dmFallbackRan, dmError>>
    /\ UNCHANGED DmOthers

\* writeStream.end(); the connection is closed in finally.
DmFallbackEnd ==
    /\ dmPc = "tables"
    /\ dmFile.tables = dmTables
    /\ dmPc' = "returned"
    /\ UNCHANGED <<dmEngine, dmUrl, dmBinary, dmExit, dmTables, dmSpawned,
                   dmCliErr, dmFallbackRan, dmFile, dmError>>
    /\ UNCHANGED DmOthers

DmNext == DmRunCli \/ DmCliClose \/ DmFallbackConnect \/ DmFallbackTable \/ DmFallbackEnd

(***************************************************************************)
(* PowerBackupScheduler.start() and stop(), called in any order by the     *)
(* code that holds the scheduler object.  start() awaits the initial run   *)
(* of the scheduled tasks before it arms the hourly timer, so calls can    *)
(* arrive while a start() is still under way.                              *)
(***************************************************************************)
SsIdle ==
    /\ ssIsRunning = FALSE
    /\ ssStarting = 0
    /\ ssTimers = 0
    /\ ssCalls = MaxCalls
    /\ ssFired = MaxFired
    /\ ssFiredStopped = FALSE

\* constructor: this.isRunning = false
SsInit ==
    /\ ssIsRunning = FALSE
    /\ ssStarting = 0
    /\ ssTimers = 0
    /\ ssCalls = 0
    /\ ssFired = 0
    /\ ssFiredStopped = FALSE

SsOthers == <<trVars, bkVars, prVars, rsVars, scVars, cnVars, fbVars, dmVars>>

\* start() up to the await: if (this.isRunning) return; this.isRunning =
\* true; the initial runScheduledTasks() begins.
SsStart ==
    /\ ssCalls < MaxCalls
    /\ ssCalls' = ssCalls + 1
    /\ IF ssIsRunning
       THEN UNCHANGED <<ssIsRunning, ssStarting>>
       ELSE /\ ssIsRunning' = TRUE
            /\ ssStarting' = ssStarting + 1
    /\ UNCHANGED <<ssTimers, ssFired, ssFiredStopped>>
    /\ UNCHANGED SsOthers

\* start() after the await: setInterval(...) arms an hourly timer; the
\* handle is not kept.
SsArmTimer ==
    /\ ssStarting > 0
    /\ ssStarting' = ssStarting - 1
    /\ ssTimers' = ssTimers + 1
    /\ UNCHANGED <<ssIsRunning, ssCalls, ssFired, ssFiredStopped>>
    /\ UNCHANGED SsOthers

\* stop(): this.isRunning = false
SsStop ==
    /\ ssCalls < MaxCalls
    /\ ssCalls' = ssCalls + 1
    /\ ssIsRunning' = FALSE
    /\ UNCHANGED <<ssStarting, ssTimers, ssFired, ssFiredStopped>>
    /\ UNCHANGED SsOthers

\* The callback of an armed timer: await this.runScheduledTasks()
SsTimerFires ==
    /\ ssTimers > 0
    /\ ssFired < MaxFired
    /\ ssFired' = ssFired + 1
    /\ ssFiredStopped' = (ssFiredStopped \/ ~ssIsRunning)
    /\ UNCHANGED <<ssIsRunning, ssStarting, ssTimers, ssCalls>>
    /\ UNCHANGED SsOthers

SsNext == SsStart \/ SsArmTimer \/ SsStop \/ SsTimerFires

(***************************************************************************)
(* Specifications.                                                         *)
(***************************************************************************)
InitTableRestore == TrInit /\ BkIdle /\ PrIdle /\ RsIdle /\ ScIdle /\ CnIdle /\ FbIdle /\ DmIdle /\ SsIdle

SpecTableRestore == InitTableRestore /\ [][TrNext]_vars

InitBackup == BkIdle /\ TrIdle /\ PrIdle /\ RsIdle /\ ScIdle /\ CnIdle /\ FbIdle /\ DmIdle /\ SsIdle

SpecBackup == InitBackup /\ [][BkNext]_vars

\* Pruning of all the tiers on a file system that performs every call.
InitPrune == PrInitAllTiers /\ TrIdle /\ BkIdle /\ RsIdle /\ ScIdle /\ CnIdle /\ FbIdle /\ DmIdle /\ SsIdle

SpecPrune == InitPrune /\ [][PrNext]_vars

\* Pruning of one tier on a file system whose calls may fail.
InitPruneTier == PrInitOneTier /\ TrIdle /\ BkIdle /\ RsIdle /\ ScIdle /\ CnIdle /\ FbIdle /\ DmIdle /\ SsIdle

SpecPruneTier == InitPruneTier /\ [][PrNext]_vars

InitRestore == RsInit /\ TrIdle /\ BkIdle /\ PrIdle /\ ScIdle /\ CnIdle /\ FbIdle /\ DmIdle /\ SsIdle

SpecRestore == InitRestore /\ [][RsNext]_vars

\* The destructive restore of a stored artifact.
InitActualRestore == RsInit /\ TrIdle /\ BkIdle /\ PrIdle /\ ScIdle /\ CnIdle /\ FbIdle /\ DmIdle /\ SsIdle

SpecActualRestore == InitActualRestore /\ [][ArNext]_vars

InitScheduler == ScInit /\ TrIdle /\ BkIdle /\ PrIdle /\ RsIdle /\ CnIdle /\ FbIdle /\ DmIdle /\ SsIdle

SpecScheduler == InitScheduler /\ [][ScNext]_vars

InitCreateNow == CnInit /\ TrIdle /\ BkIdle /\ PrIdle /\ RsIdle /\ ScIdle /\ FbIdle /\ DmIdle /\ SsIdle

SpecCreateNow == InitCreateNow /\ [][CnNext]_vars

InitFallback == FbInit /\ TrIdle /\ BkIdle /\ PrIdle /\ RsIdle /\ ScIdle /\ CnIdle /\ DmIdle /\ SsIdle

SpecFallback == InitFallback /\ [][FbNext]_vars

InitDump == DmInit /\ TrIdle /\ BkIdle /\ PrIdle /\ RsIdle /\ ScIdle /\ CnIdle /\ FbIdle /\ SsIdle

SpecDump == InitDump /\ [][DmNext]_vars

InitStartStop ==
    SsInit /\ TrIdle /\ BkIdle /\ PrIdle /\ RsIdle /\ ScIdle /\ CnIdle /\ FbIdle /\ DmIdle

SpecStartStop == InitStartStop /\ [][SsNext]_vars

(***************************************************************************)
(* Claims about the verify-mode restore.                                   *)
(***************************************************************************)
\* C1: after a verify-mode restore that issued its CREATE DATABASE has
\* returned - the SQL ran cleanly, the execution threw, or the verification
\* query failed - the temporary database restore_<timestamp> does not exist
\* on the server, on the MySQL and on the PostgreSQL path.
C1_TmpDbGoneOnReturn ==
    (rsPc = "returned" /\ rsCreateTried) => TmpDb \notin rsDbs

\* The restore created the temporary database, the verification query
\* failed, and the restore has returned.
C1_Witness ==
    /\ rsPc = "returned"
    /\ rsCreated
    /\ rsError = "verify"
    /\ TmpDb \notin rsDbs

\* C9: for every artifact performBackup stores - unencrypted, encrypted with
\* the passphrase, encrypted for recipient keys - the decoding of the restore
\* decrypts exactly when the artifact is encrypted and decompresses exactly
\* once: when the decoding is over, the text it hands to the SQL execution is
\* the raw dump the artifact was made from.
C9_DecodedTextIsRawDump ==
    rsPc \notin {"off", "start", "decrypted", "decompressed"}
    => (rsError \notin {"decrypt", "decompress", "gunzip"} /\
        (rsError # "invalid" => rsContent = rsRaw))

\* C15: the restore rejects a decoded text as not being a SQL dump only when
\* performBackup's marker check rejects that text too: an artifact made from
\* a dump that passed the check at backup time is never refused by the marker
\* check of decompressBackupFile ("decompress") or of the engine restore
\* ("invalid").
C15_RestoreAcceptsWhatBackupAccepted ==
    rsError \in {"invalid", "decompress"} => ~HasMarkerAnywhere(rsRaw)

\* C16: a verify-mode restore runs the dump's SQL only on a connection to the
\* temporary database it has created, and every database it adds to or
\* removes from the server is that temporary database, created by this very
\* restore: no other database, and no database somebody else created, is
\* created or dropped.
C16_OnlyOwnDatabaseTouched ==
    [][/\ rsPc = "restoring" => (rsCreated /\ TmpDb \in rsDbs)
       /\ rsDbs' # rsDbs
          => /\ (rsDbs' \ rsDbs) \cup (rsDbs \ rsDbs') = {TmpDb}
             /\ rsCreated']_vars

\* C24: in the destructive restore, when the query that sends the whole SQL
\* text fails, the statement-by-statement fallback runs, and the restore is
\* reported as failed only if the fallback executed no statement.
C24_DestructiveBulkFailureFallsBack ==
    rsFallback.bulk = "failed"
    => /\ rsFallback.ran
       /\ rsError = "execute" => rsFallback.success = 0

\* C38: a verify-mode restore whose CREATE DATABASE failed - for instance
\* because a database of the same restore_<timestamp> name exists already,
\* created by another invocation - drops no database: from the failure on,
\* the databases of the server stay as they are.
C38_FailedCreateDropsNothing ==
    [][(rsError = "create" /\ ~rsCreated) => rsDbs' = rsDbs]_vars

\* C36: a destructive restore issues the DROP of the target database only
\* after the artifact has been decoded completely and the decoded text has
\* passed the marker check; when decryption, decompression or validation
\* fails, or the engine is not supported, the target database is untouched.
C36_DropOnlyAfterValidatedDecode ==
    /\ rsCreateTried => (rsContent = rsRaw /\ HasMarkerAtStart(rsContent))
    /\ rsError \in {"decrypt", "decompress", "gunzip", "invalid", "unsupported"}
       => (~rsCreateTried /\ OrigDb \in rsDbs)

\* C25: on both engines, when the fallback has run, the restore is reported
\* as failed by it exactly when no statement succeeded and at least one
\* statement raised an error.
C25_FallbackFailsIffNothingSucceeded ==
    rsFallback.ran
    => (rsError = "execute" <=> (rsFallback.success = 0 /\ rsFallback.errors > 0))

(***************************************************************************)
(* Claims about the single-table restore.                                  *)
(***************************************************************************)
\* C2: a single-table restore of table T drops, creates and writes only
\* table T in the target database, whatever other tables the dump contains.
C2_OnlyTargetTableTouched ==
    \A e \in trEffects : e.tbl = trTable

\* C3: for a dump holding CREATE TABLE users and its INSERTs followed by
\* CREATE TABLE posts and its INSERTs, the span extracted for users contains
\* only lines of users statements, for any number of INSERTs and for
\* one-line and several-line CREATE TABLE statements.
C3_ExtractOnlyUsers ==
    (/\ trPc = "extracted"
     /\ trShape.first = "users"
     /\ ~trShape.withDrop
     /\ trTable = "users")
    => \A k \in 1..Len(trSQL.lines) : trSQL.lines[k].tbl = "users"

\* The dump holds a CREATE TABLE for table t.
HasCreateTable(lines, t) == \E i \in 1..Len(lines) : IsCreateOf(lines[i], t)

\* The INSERT statements the dump holds for table t.
RowsInDump(sh, t) == IF t = sh.first THEN sh.nFirst ELSE sh.nSecond

\* What extraction returns for a table the dump has no CREATE TABLE for.
NotFoundResult(engine, lines) ==
    IF engine = "mysql" THEN extractTableSQL(lines, "missing")
    ELSE extractPostgresTableSQL(lines, "missing")

\* C30: when the dump holds no CREATE TABLE for the requested table, the
\* extraction yields a not-found result, different from the result for a
\* table that is in the dump with zero rows, and the single-table restore
\* ends with the table-not-found error without connecting to the target
\* database or changing it.
C30_NotFoundBeforeAnyConnection ==
    /\ (~HasCreateTable(trDump, trTable) /\ trPc # "start")
       => /\ trPc \in {"notfound", "failed"}
          /\ trPc = "notfound" => IsFalsySQL(trSQL)
          /\ trPc = "failed" => trSQL = NullSQL
          /\ trEffects = {}
    /\ (/\ HasCreateTable(trDump, trTable)
        /\ RowsInDump(trShape, trTable) = 0
        /\ trPc \notin {"start", "failed"})
       => /\ trPc # "notfound"
          /\ trSQL # NotFoundResult(trEngine, trDump)
          /\ ~IsFalsySQL(trSQL)

\* The line at which the extractor of the engine closes the DDL span.
DdlClosedAt(engine, lines, t) ==
    IF engine = "mysql"
    THEN ExtractLoop(lines, t, 1, FALSE, << >>, 0, FALSE).closedAt
    ELSE PgExtractLoop(lines, t, 1, FALSE, << >>, 0, 0).closedAt

\* The parenthesis depth after line i, counted from line c on, line c
\* included.
RECURSIVE DepthFrom(_, _, _)
DepthFrom(lines, c, i) ==
    IF i < c THEN 0
    ELSE DepthFrom(lines, c, i - 1) + lines[i].open - lines[i].close

\* The first line, from the CREATE TABLE line of t on, at which the depth is
\* zero and the line ends with a terminator; 0 if there is none.
StatementCloseLine(lines, t) ==
    LET c == CHOOSE k \in 1..Len(lines) :
                 /\ IsCreateOf(lines[k], t)
                 /\ \A j \in 1..(k - 1) : ~IsCreateOf(lines[j], t)
        closing == { i \in c..Len(lines) : DepthFrom(lines, c, i) = 0 /\ lines[i].semi }
    IN  IF closing = {} THEN 0
        ELSE CHOOSE i \in closing : \A j \in closing : i <= j

\* C34: when table T is extracted, the parenthesis depth is counted from the
\* line holding CREATE TABLE T on, that line included, and the DDL span
\* closes at the first line at which the depth is zero and the line ends
\* with a terminator: the closing line of the CREATE TABLE statement itself,
\* also when the statement is written over several lines.
C34_DdlSpanClosesAtOwnTerminator ==
    (trPc \notin {"start", "failed"} /\ HasCreateTable(trDump, trTable))
    => DdlClosedAt(trEngine, trDump, trTable) = StatementCloseLine(trDump, trTable)

\* The lines of the given kind that belong to table t.
RECURSIVE CountLines(_, _, _)
CountLines(lines, kind, t) ==
    IF lines = << >> THEN 0
    ELSE (IF Head(lines).kind = kind /\ Head(lines).tbl = t THEN 1 ELSE 0)
         + CountLines(Tail(lines), kind, t)

\* C35: in the SQL extracted for table T, every INSERT statement for T that
\* lies between T's CREATE TABLE and the next CREATE TABLE of another table
\* appears exactly once, whether the INSERT statements are written on one
\* line or on several: the extracted text holds as many first lines and as
\* many continuation lines of T's statements as the dump does.
C35_EveryInsertExactlyOnce ==
    (trPc \notin {"start", "failed", "notfound"})
    => /\ CountLines(trSQL.lines, "insert", trTable) = CountLines(trDump, "insert", trTable)
       /\ CountLines(trSQL.lines, "body", trTable) = CountLines(trDump, "body", trTable)

\* A restore of a table the dump does not hold has ended with the
\* table-not-found error.
C30_Witness ==
    /\ trPc = "notfound"
    /\ ~HasCreateTable(trDump, trTable)
    /\ trTarget # {}

(***************************************************************************)
(* Claims about performBackup.                                             *)
(***************************************************************************)
\* The bytes an artifact must consist of: the gzip of a complete dump, and
\* on top of it the encryption when the artifact is encrypted.
IsFinalBytes(data, encrypted, how) ==
    /\ data.whole
    /\ data.layers = IF encrypted THEN << "gz", how >> ELSE << "gz" >>

\* C4: the SHA-256 recorded in an artifact's sidecar equals the SHA-256 of
\* the bytes of the file at its final stored path, which are the
\* post-encryption bytes if it is encrypted and else the post-compression
\* bytes.
C4_ChecksumOfStoredBytes ==
    \A m \in metas :
        /\ Exists(store, m.file)
        /\ m.sha256 = Sha256(DataAt(store, m.file))
        /\ IF m.encrypted
           THEN DataAt(store, m.file).layers[Len(DataAt(store, m.file).layers)]
                    \in {"gpg-keys", "gpg-pass"}
           ELSE IsGzip(DataAt(store, m.file))

C4_Witness ==
    /\ bkPc = "idle"
    /\ \E m \in metas : m.encrypted /\ Exists(store, m.file)
    /\ \E m \in metas : ~m.encrypted /\ Exists(store, m.file)

\* C5: at every point of a backup, every file in the tier directory is a
\* completely transformed artifact (compressed, and encrypted when the
\* encryption is configured) of the call that made it; the raw dump, the
\* compressed file of an encrypted backup and partly written files are
\* never there.
C5_OnlyFinalFilesInTier ==
    \A f \in store :
        LET cfg == bkCfgOf[f.name.tmp]
        IN  /\ IsFinalBytes(f.data, EncryptionConfigured(cfg), EncryptionKind(cfg))
            /\ f.data.id = f.name.tmp
            /\ f.name.ext = IF EncryptionConfigured(cfg) THEN ".gz.gpg" ELSE ".gz"

C5_Witness ==
    /\ bkPc = "meta"
    /\ EncryptionConfigured(bkCfg)
    /\ Exists(store, bkFinal)
    /\ bkCount = 2

\* C10: when performBackup has returned, with a result or with an error,
\* none of the scratch files it created is left in the scratch area.
C10_ScratchEmptyOnReturn ==
    bkPc = "idle" => scratch = {}

\* C11: whenever performBackup has returned, with a result or with an error,
\* every artifact file in the tier directory has its (one) metadata sidecar,
\* and at every moment every sidecar belongs to an artifact file that is
\* already in the tier directory.
C11_ArtifactHasSidecar ==
    /\ bkPc = "idle" => \A f \in store : \E m \in metas : m.file = f.name
    /\ \A m \in metas : Exists(store, m.file)

\* Encryption is configured for the backup: the target's or the global
\* configuration names recipient keys, or a passphrase file is set.
EncryptionDeclared(raw) ==
    raw.dbRecipients = "some" \/ raw.globalRecipients \/ raw.passfile

\* C12: when encryption is configured for a backup and the encryption step
\* fails, performBackup returns with an error and stores nothing; an artifact
\* stored by a call whose encryption is configured always has the encryption
\* as its outermost layer.
C12_NoPlainArtifactWhenEncryptionConfigured ==
    /\ bkError = "encryption" => ~\E f \in store : f.name.tmp = bkSql.tmp
    /\ \A f \in store :
         (f.name.tmp = bkSql.tmp /\ EncryptionDeclared(bkRaw))
         => f.data.layers[Len(f.data.layers)] \in {"gpg-keys", "gpg-pass"}

\* C13: after compressing, performBackup decompresses the compressed file and
\* applies the marker check to the decompressed bytes; a compressed file that
\* does not decompress, or whose decompressed bytes fail the check, raises an
\* error and is not stored: under the layers of every stored artifact is a
\* complete text that passes the marker check.
C13_StoredArtifactPassedSelfVerify ==
    \A f \in store : f.data.whole /\ f.data.marker

\* C14: a raw dump without any marker token makes performBackup raise before
\* it compresses, encrypts, checksums or places anything: the compression is
\* reached only with a dump that holds a marker, and the call that failed the
\* validation has no compressed or encrypted file, no artifact and no sidecar.
C14_NoMarkerAbortsBeforeTransform ==
    /\ bkPc = "compress" => DataAt(scratch, bkSql).marker
    /\ bkError = "validation"
       => /\ ~\E f \in scratch \cup store : f.name.tmp = bkSql.tmp /\ f.name.ext # ""
          /\ ~\E m \in metas : m.file.tmp = bkSql.tmp
          /\ bkSum = NoSum

\* A dump without a marker was written, the validation raised and
\* performBackup has returned.
C14_Witness ==
    /\ bkPc = "idle"
    /\ bkError = "validation"
    /\ bkCount = 2
    /\ store # {}

\* What the base of a path is made of.  Every path performBackup uses is
\* sqlPath, the path tmpFile() returned, with suffixes appended; the local
\* fileName (`${dbConfig.name}_${timestamp}.sql`) is computed and not used.
NameBase(name) == IF name.tmp > 0 THEN "tmpfile" ELSE "none"

\* C32: the name of every stored artifact is the target's name, an
\* underscore and the creation timestamp, followed by .sql, the compression
\* suffix and, if it is encrypted, the encryption suffix; its sidecar has
\* the same base name.
C32_StoredNameIsTargetAndTimestamp ==
    \A f \in store :
        /\ NameBase(f.name) = "target_timestamp"
        /\ f.name.ext \in {".sql.gz", ".sql.gz.gpg"}
        /\ bkPc = "idle" => \E m \in metas : m.file = f.name

(***************************************************************************)
(* Claims about the pruning.                                               *)
(***************************************************************************)
DistinctMtimes(files) ==
    \A a, b \in files : a # b => a.mtime # b.mtime

\* The n most recently modified of the files.
NewestN(files, n) ==
    { f \in files : Cardinality({ g \in files : g.mtime > f.mtime }) < n }

\* The tiers pruneBackups has been through.
TiersDone == { TierNames[k] : k \in 1..(prTierIdx - 1) }

\* C6: for a tier with keep-count N > 0 that holds M artifact files of
\* distinct modification times: if M > N, exactly N files remain after
\* pruneTier and they are the N most recently modified; if M <= N, nothing
\* is deleted.
C6_PruneKeepsNewestN ==
    \A t \in TiersDone :
        LET N == MaxKeepOf(prRetention[t])
            M == Cardinality(prDisk0[t])
        IN  (N > 0 /\ DistinctMtimes(prDisk0[t]))
            => IF M > N
               THEN Cardinality(prDisk[t]) = N /\ prDisk[t] = NewestN(prDisk0[t], N)
               ELSE prDisk[t] = prDisk0[t] /\ prMeta[t] = 1..M

C6_Witness ==
    /\ prPc = "done"
    /\ MaxKeepOf(prRetention["hourly"]) = 1
    /\ Cardinality(prDisk0["hourly"]) = 3
    /\ prDisk["hourly"] = { ArtifactFile(3, 3) }
    /\ MaxKeepOf(prRetention["daily"]) = 2
    /\ prDisk["daily"] = { ArtifactFile(2, 2), ArtifactFile(3, 3) }

\* The artifact files of tier t deleted so far.
DeletedFiles(t) == prDisk0[t] \ prDisk[t]

\* C7: in every run of pruneTier, also when deletions fail, at most
\* (count - keep-count) artifact files are deleted, they are deleted in the
\* order of their modification times, oldest first, and none of the
\* keep-count most recently modified files is deleted (a deleted file has at
\* least keep-count other files that are not older than it); a file is
\* unlinked only after every older file of the tier has been.
C7_PruneAtMostExcessOldestFirst ==
    \A t \in Tiers :
        LET N == MaxKeepOf(prRetention[t])
            M == Cardinality(prDisk0[t])
        IN  /\ prDisk[t] \subseteq prDisk0[t]
            /\ Cardinality(DeletedFiles(t)) <= IF M > N /\ N > 0 THEN M - N ELSE 0
            /\ { prLog[t][k].file : k \in { j \in 1..Len(prLog[t]) : prLog[t][j].ok } }
                   = DeletedFiles(t)
            /\ \A k \in 1..(Len(prLog[t]) - 1) :
                   prLog[t][k].file.mtime <= prLog[t][k + 1].file.mtime
            /\ \A k \in 1..Len(prLog[t]) : \A g \in prDisk0[t] :
                   g.mtime < prLog[t][k].file.mtime
                   => \E j \in 1..(k - 1) : prLog[t][j].file = g
            /\ \A d \in DeletedFiles(t) :
                   Cardinality({ g \in prDisk0[t] \ {d} : g.mtime >= d.mtime }) >= N

C7_Witness ==
    /\ prPc = "done"
    /\ prFaulty
    /\ MaxKeepOf(prRetention["hourly"]) = 1
    /\ Cardinality(prDisk0["hourly"]) = 3
    /\ Cardinality(prDisk["hourly"]) = 2
    /\ \E f \in prDisk["hourly"] : \A g \in prDisk0["hourly"] : f.mtime < g.mtime \/ f = g

\* C8: in a tier whose keep-count is 0, negative or absent from the
\* retention policy, pruning deletes no file, however many the tier holds.
C8_KeepZeroDisablesPruning ==
    \A t \in Tiers :
        MaxKeepOf(prRetention[t]) <= 0
        => prDisk[t] = prDisk0[t] /\ prMeta[t] = 1..Cardinality(prDisk0[t])

C8_Witness ==
    /\ prPc = "done"
    /\ prRetention["hourly"] = KeepOf(0)
    /\ prRetention["daily"] = KeepOf(0 - 1)
    /\ prRetention["weekly"] = KeepAbsent
    /\ prRetention["monthly"] = KeepOf(1)
    /\ Cardinality(prDisk0["hourly"]) = 3
    /\ Cardinality(prDisk["monthly"]) = 1

C17_OneCycleAtATime ==
    Cardinality({ c \in 1..MaxCycles : Running(scCycle[c]) }) <= 1

\* C18: when a cycle is over, every configured target has been taken up in
\* it, whatever failed for the targets before it.
C18_EveryTargetAttempted ==
    \A c \in 1..MaxCycles :
        scCycle[c].pc = "done" => scCycle[c].attempted = DbIdx

\* A cycle is over in which the backup of the first target failed and the
\* second target was backed up after it.
C18_Witness ==
    \E c \in 1..MaxCycles :
        /\ scCycle[c].pc = "done"
        /\ scCycle[c].backedUp = {2}
        /\ scCycle[c].attempted = DbIdx

\* C19: for a target with verification enabled at hour h whose artifact has
\* just been produced, the verification restore is executed exactly when the
\* hour read from the clock is h.
C19_VerifyRunsIffHourMatches ==
    \A c \in 1..MaxCycles :
        (scCycle[c].pc = "verified" /\ scTest[scCycle[c].idx].enabled)
        => (scCycle[c].ran <=> scCycle[c].hour = scTest[scCycle[c].idx].hour)

\* C20: when a cycle is over, the hourly tier of every target that was
\* backed up in it holds at most keep-count files, if the keep-count is
\* positive.
C20_TierWithinKeepAfterCycle ==
    \A c \in 1..MaxCycles :
        scCycle[c].pc = "done"
        => \A i \in scCycle[c].backedUp : scKeep > 0 => scFiles[i] <= scKeep

\* C40: when producing the artifact fails for a target in a cycle, neither
\* the verification restore nor the pruning runs for that target in that
\* cycle: a cycle is at the verification or the pruning step of a target
\* only if it has backed that target up, and a target's files are removed
\* only by a cycle that has.
C40_NoVerifyNoPruneAfterFailedBackup ==
    \A c \in 1..MaxCycles :
        scCycle[c].pc \in {"verify", "verified"}
        => scCycle[c].idx \in scCycle[c].backedUp

\* A cycle of the scheduler class has gone on to the second target after the
\* backup of the first one failed.
C40_Witness ==
    \E c \in 1..MaxCycles :
        /\ scKind = "class"
        /\ scCycle[c].pc = "backup"
        /\ scCycle[c].idx = 2
        /\ scCycle[c].backedUp = {}

\* C22: when a termination signal ends the daemon, no cycle is cut off: no
\* backup, verification or pruning step of a running cycle is in progress at
\* the moment the process ends.
C22_SignalLetsCycleFinish ==
    scExit.why = "signal" => scExit.cut \cap {"backup", "verify", "verified"} = {}

\* C23: the daemon keeps running after a failed cycle, a cycle that failed to
\* load the configuration included: the process never ends for a reason
\* other than a termination signal.
C23_DaemonSurvivesFailedCycle ==
    scExit.why \in {"none", "signal"}

(***************************************************************************)
(* Claims about the statement-by-statement fallback.                       *)
(***************************************************************************)
\* Position p of the text follows a backslash that escapes it.
RECURSIVE EscapedAt(_, _)
EscapedAt(text, p) == p > 1 /\ text[p - 1] = "\\" /\ ~EscapedAt(text, p - 1)

\* The quote that is open after the first p tokens of the text, "" if none.
RECURSIVE OpenQuote(_, _)
OpenQuote(text, p) ==
    IF p = 0 THEN ""
    ELSE LET q == OpenQuote(text, p - 1)
         IN  IF EscapedAt(text, p) \/ text[p] \notin {"'", "\""} THEN q
             ELSE IF q = "" THEN text[p]
             ELSE IF q = text[p] THEN "" ELSE q

\* C26: on every engine path the splitter ends a statement only at a
\* terminator that is outside the quoted regions and not escaped by a
\* backslash.
C26_SplitOnlyAtTopLevelTerminator ==
    \A p \in fbCuts :
        /\ fbText[p] = ";"
        /\ OpenQuote(fbText, p - 1) = ""
        /\ ~EscapedAt(fbText, p)

\* C27: on every engine path, no statement that begins with CREATE USER,
\* GRANT, REVOKE, SET PASSWORD, ALTER ROLE or CREATE ROLE is sent to the
\* database.
C27_PrivilegeStatementsNeverSent ==
    \A k \in 1..Len(fbSent) : fbSent[k][1] \notin {"GRANT", "PASSWORD", "ROLE"}

\* The statements of the text that match no skip pattern, in order.
NonSkippedStatements ==
    LET NotSkipped(st) == ~Skipped(fbEngine, st)
    IN  SelectSeq(PiecesFrom(fbText, 1, fbCuts, fbEngine = "mysql"), NotSkipped)

\* The statements of seq whose command, their first token, is not one of the
\* privilege and role statements.
OtherCommands(seq) ==
    LET NotPrivilege(st) == st[1] \notin {"GRANT", "PASSWORD", "ROLE"}
    IN  SelectSeq(seq, NotPrivilege)

\* C37: the fallback skips only privilege and role statements: when the loop
\* has been through all statements on a connection that stayed up, every
\* statement whose command is of another kind has been sent, also one that
\* holds a privilege keyword further on, as in its string data.
C37_OnlyPrivilegeStatementsSkipped ==
    (fbPc = "done" /\ fbStatements = << >> /\ fbLostAt = 0)
    => OtherCommands(fbSent)
       = OtherCommands(PiecesFrom(fbText, 1, fbCuts, fbEngine = "mysql"))

\* C33: on every engine path, once the connection is lost no further
\* statement is attempted, and when the fallback ends without the connection
\* having been lost every non-skipped statement has been attempted, in
\* order, whatever errors the statements raised.
C33_ContinuePastErrorsHaltOnLoss ==
    /\ fbLostAt > 0 => Len(fbSent) = fbLostAt
    /\ (fbPc = "done" /\ fbLostAt = 0) => fbSent = NonSkippedStatements

(***************************************************************************)
(* Claims about producing a dump.                                          *)
(***************************************************************************)
\* C28: for both engines the driver-level fallback runs only if the dump
\* tool is missing, not executable or exited non-zero, and when the tool is
\* available and succeeds the dump file is the tool's output and the
\* fallback is not run.
C28_ToolFirstFallbackOnlyOnToolFailure ==
    /\ dmFallbackRan => (dmBinary = "missing" \/ dmExit # 0)
    /\ (dmPc = "returned" /\ dmBinary = "present" /\ dmExit = 0)
       => (dmFile.by = "tool" /\ ~dmFallbackRan)

\* C29: when the dump tool fails because of a connection error (bad locator
\* or bad credentials), the driver-level fallback is not attempted.
C29_NoFallbackAfterConnectionError ==
    (dmCliErr = "exit" /\ dmUrl \in ConnectionErrorUrls) => ~dmFallbackRan

\* C39: after any sequence of start() and stop() calls, once every start()
\* has returned, one hourly timer is active while the scheduler is running
\* and none while it is stopped, and no timer starts a cycle while the
\* scheduler is stopped.
C39_OneTimerWhileRunningNoneStopped ==
    /\ ssStarting = 0 => ssTimers = (IF ssIsRunning THEN 1 ELSE 0)
    /\ ~ssFiredStopped

(***************************************************************************)
(* Claims about create-now.                                                *)
(***************************************************************************)
\* C21: for a target with keep.hourly = 2, once three create-now calls have
\* each produced an artifact, the hourly tier holds exactly two artifacts,
\* those of the second and of the third call.
C21_ThreeCallsLeaveNewestTwo ==
    (cnKeep = 2 /\ cnPc = "idle" /\ cnProduced = {1, 2, 3})
    => cnTier = << 2, 3 >>

====
